---- MODULE Spec2Model ----
(***************************************************************************)
(* Hypatia: a calculator language with physical quantities.                *)
(*                                                                         *)
(* The module models the tree-walking evaluator of src/core/src/eval.rs    *)
(* (Environment, eval, eval_block, eval_literal), the number and unit      *)
(* algebra it computes with (number.rs, units.rs), the prefix trie         *)
(* (trie.rs) and the resolver pass (resolve.rs) that lib.rs::parse runs    *)
(* before evaluation, and the notebook of src/web/web_bindings/src/lib.rs, *)
(* whose cells run in clones of one another's environments.                *)
(*                                                                         *)
(* Identifiers are sequences of one-character strings, so that the trie    *)
(* and strip_prefix work on them as the code works on bytes.               *)
(* Arc<Mutex<VariableScope>> nodes live in a heap (st.scopes); an Arc is   *)
(* the index of its node.  The units, unit_names and prefixes Arcs are     *)
(* shared by every clone of an Environment (derive(Clone) clones the Arc), *)
(* so they are fields of the store and an Environment value is the handle  *)
(* of its current scope.                                                   *)
(***************************************************************************)
EXTENDS Integers, Sequences, FiniteSets, TLC

\* the session of cli main: its environment, the heap and stores behind it,
\* the last output, the last input and the number of inputs read
VARIABLES env, st, out, input, inputs

\* trie.rs tests::add_remove_len_purge: the trie, the reference HashMap, what
\* the last operation returned on each, and the number of operations applied
VARIABLES tr, hm, ret, ops

\* units.rs and number.rs: two quantities and the operations applied to them,
\* each with its operands and its result
VARIABLES qa, qb, hist

\* resolve.rs: the parsed tree and the results of the resolve passes run on it
VARIABLES tree, passes

\* web_bindings: the cells of the notebook (STATE), the stores behind the
\* environments created so far, the last call with what it returned and the
\* cells it ran, and the number of calls made
VARIABLES cells, stores, last, runs, edits

\* format_unit: the last call, with the quantity, the stores and the order of
\* the candidate names it was given, and what it returned
VARIABLES formatted

sessionVars == <<env, st, out, input, inputs>>

trieVars == <<tr, hm, ret, ops>>

unitsVars == <<qa, qb, hist>>

resolverVars == <<tree, passes>>

notebookVars == <<cells, stores, last, runs, edits>>

vars == <<sessionVars, trieVars, unitsVars, resolverVars, notebookVars, formatted>>

\* what the steps of one component leave alone
exceptSession == <<trieVars, unitsVars, resolverVars, notebookVars, formatted>>

exceptTrie == <<sessionVars, unitsVars, resolverVars, notebookVars, formatted>>

exceptUnits == <<sessionVars, trieVars, resolverVars, notebookVars, formatted>>

exceptResolver == <<sessionVars, trieVars, unitsVars, notebookVars, formatted>>

exceptFormat == <<sessionVars, trieVars, unitsVars, resolverVars, notebookVars>>

exceptNotebook == <<sessionVars, trieVars, unitsVars, resolverVars, formatted>>

(***************************************************************************)
(* Bounds of the model.                                                    *)
(***************************************************************************)
\* number of inputs the session (cli main loop) evaluates
MaxInputs == 2

\* nesting of eval invocations at which the stack is exhausted
MaxDepth == 14

(***************************************************************************)
(* Generic helpers for maps (HashMap / BTreeMap as partial functions).     *)
(***************************************************************************)
EmptyMap == [x \in {} |-> x]

MapPut(m, k, v) == [x \in (DOMAIN m) \cup {k} |-> IF x = k THEN v ELSE m[x]]

\* Option<String>::None; no identifier is empty (parser.rs ident())
NoName == <<>>

(***************************************************************************)
(* Option<T>.                                                              *)
(***************************************************************************)
None == [some |-> FALSE]

Some(x) == [some |-> TRUE, v |-> x]

(***************************************************************************)
(* number.rs: Number = Exact(BigRational) | Approx(f64).                   *)
(* A rational is kept reduced with a positive denominator, as              *)
(* BigRational::new does.  form = "Panic" stands for the unwinding of a    *)
(* panic (division by an Exact zero) through the enclosing expression.     *)
(***************************************************************************)
Abs(i) == IF i < 0 THEN -i ELSE i

RECURSIVE GCD(_, _)
GCD(a, b) == IF b = 0 THEN a ELSE GCD(b, a % b)

Exact(n, d) ==
    LET g == GCD(Abs(n), Abs(d))
        s == IF d < 0 THEN -1 ELSE 1
    IN [form |-> "Exact", n |-> (s * n) \div g, d |-> (s * d) \div g]

Approx(n, d) ==
    LET g == GCD(Abs(n), Abs(d))
        s == IF d < 0 THEN -1 ELSE 1
    IN [form |-> "Approx", n |-> (s * n) \div g, d |-> (s * d) \div g]

NumberPanic == [form |-> "Panic", n |-> 0, d |-> 1]

Number_new(integer) == Exact(integer, 1)

Number_one == Number_new(1)

Number_zero == Number_new(0)

into_approx(x) == IF x.form = "Exact" THEN Approx(x.n, x.d) ELSE x

\* the variant of the result of a binary operation (match arms of impl Add/Sub/Mul/Div)
ResultForm(a, b) == IF a.form = "Exact" /\ b.form = "Exact" THEN "Exact" ELSE "Approx"

\* f64 (IEEE 754).  A finite nonzero value is the reduced rational n/d, d > 0;
\* d = 0 is NaN (n = 0) or an infinity (n = 1, n = -1); n = 0 is a zero of
\* sign d.  Rounding, overflow and underflow are not modelled: a finite result
\* is the exact rational.
f64_NaN == [form |-> "Approx", n |-> 0, d |-> 0]

f64_is_nan(a) == a.n = 0 /\ a.d = 0

f64_is_infinite(a) == a.n # 0 /\ a.d = 0

f64_signum(a) == IF a.n = 0 THEN a.d ELSE IF a.n < 0 THEN -1 ELSE 1

f64_infinity(sign) == [form |-> "Approx", n |-> sign, d |-> 0]

f64_zero(sign) == [form |-> "Approx", n |-> 0, d |-> sign]

f64_neg(a) == [a EXCEPT !.n = -a.n, !.d = IF a.n = 0 THEN -a.d ELSE a.d]

f64_add(a, b) ==
    IF f64_is_nan(a) \/ f64_is_nan(b) THEN f64_NaN
    ELSE IF f64_is_infinite(a)
         THEN IF f64_is_infinite(b) /\ a.n # b.n THEN f64_NaN ELSE a
    ELSE IF f64_is_infinite(b) THEN b
    ELSE IF a.n = 0 /\ b.n = 0 THEN f64_zero(IF a.d = -1 /\ b.d = -1 THEN -1 ELSE 1)
    ELSE Approx(a.n * Abs(b.d) + b.n * Abs(a.d), Abs(a.d) * Abs(b.d))

f64_mul(a, b) ==
    IF f64_is_nan(a) \/ f64_is_nan(b) THEN f64_NaN
    ELSE IF f64_is_infinite(a) \/ f64_is_infinite(b)
         THEN IF a.n = 0 \/ b.n = 0 THEN f64_NaN
              ELSE f64_infinity(f64_signum(a) * f64_signum(b))
    ELSE IF a.n = 0 \/ b.n = 0 THEN f64_zero(f64_signum(a) * f64_signum(b))
    ELSE Approx(a.n * b.n, a.d * b.d)

f64_div(a, b) ==
    IF f64_is_nan(a) \/ f64_is_nan(b) THEN f64_NaN
    ELSE IF f64_is_infinite(a)
         THEN IF f64_is_infinite(b) THEN f64_NaN
              ELSE f64_infinity(f64_signum(a) * f64_signum(b))
    ELSE IF f64_is_infinite(b) THEN f64_zero(f64_signum(a) * f64_signum(b))
    ELSE IF b.n = 0
         THEN IF a.n = 0 THEN f64_NaN ELSE f64_infinity(f64_signum(a) * f64_signum(b))
    ELSE IF a.n = 0 THEN f64_zero(f64_signum(a) * f64_signum(b))
    ELSE Approx(a.n * b.d, a.d * b.n)

Number_add(a, b) ==
    IF a.form = "Panic" \/ b.form = "Panic" THEN NumberPanic
    ELSE IF ResultForm(a, b) = "Exact" THEN Exact(a.n * b.d + b.n * a.d, a.d * b.d)
    ELSE f64_add(into_approx(a), into_approx(b))

Number_sub(a, b) ==
    IF a.form = "Panic" \/ b.form = "Panic" THEN NumberPanic
    ELSE IF ResultForm(a, b) = "Exact" THEN Exact(a.n * b.d - b.n * a.d, a.d * b.d)
    ELSE f64_add(into_approx(a), f64_neg(into_approx(b)))

\* variant: negation coerces its operand to Approx
Number_neg_Coerce(a) ==
    IF a.form = "Panic" THEN NumberPanic ELSE f64_neg(into_approx(a))

Number_neg(a) ==
    IF a.form = "Panic" THEN NumberPanic
    ELSE IF a.form = "Exact" THEN Exact(-a.n, a.d)
    ELSE f64_neg(a)

Number_mul(a, b) ==
    IF a.form = "Panic" \/ b.form = "Panic" THEN NumberPanic
    ELSE IF ResultForm(a, b) = "Exact" THEN Exact(a.n * b.n, a.d * b.d)
    ELSE f64_mul(into_approx(a), into_approx(b))

\* Exact / Exact with a zero divisor panics in the rational library; f64
\* division follows IEEE 754
Number_div(a, b) ==
    IF a.form = "Panic" \/ b.form = "Panic" THEN NumberPanic
    ELSE IF ResultForm(a, b) = "Exact"
         THEN IF b.n = 0 THEN NumberPanic ELSE Exact(a.n * b.d, a.d * b.n)
    ELSE f64_div(into_approx(a), into_approx(b))

\* Number::abs
Number_abs(a) ==
    IF a.form = "Panic" THEN NumberPanic
    ELSE IF a.n = 0 THEN [a EXCEPT !.d = Abs(a.d)]
    ELSE [a EXCEPT !.n = Abs(a.n)]

\* f64 <: false when an operand is NaN
f64_lt(a, b) ==
    IF f64_is_nan(a) \/ f64_is_nan(b) THEN FALSE
    ELSE IF f64_is_infinite(a) THEN a.n < 0 /\ b # a
    ELSE IF f64_is_infinite(b) THEN b.n > 0
    ELSE a.n * Abs(b.d) < b.n * Abs(a.d)

\* derive(PartialOrd) for Number: the variants in the order of their
\* declaration, Exact before Approx, then the payloads
Number_lt(a, b) ==
    IF a.form = "Exact" /\ b.form = "Exact" THEN a.n * b.d < b.n * a.d
    ELSE IF a.form = "Approx" /\ b.form = "Approx" THEN f64_lt(a, b)
    ELSE a.form = "Exact"

\* digits of a decimal literal
DigitValue(c) ==
    CASE c = "0" -> 0 [] c = "1" -> 1 [] c = "2" -> 2 [] c = "3" -> 3
      [] c = "4" -> 4 [] c = "5" -> 5 [] c = "6" -> 6 [] c = "7" -> 7
      [] c = "8" -> 8 [] c = "9" -> 9

RECURSIVE ParseInt(_)
ParseInt(s) ==
    IF s = <<>> THEN 0
    ELSE 10 * ParseInt(SubSeq(s, 1, Len(s) - 1)) + DigitValue(s[Len(s)])

RECURSIVE Pow10(_)
Pow10(k) == IF k = 0 THEN 1 ELSE 10 * Pow10(k - 1)

\* "123.2" -> 1232/10 ; "40" -> 40/1
from_decimal_str(s) ==
    IF \E i \in 1..Len(s) : s[i] = "."
    THEN LET i == CHOOSE j \in 1..Len(s) : s[j] = "." /\ \A k \in 1..(j - 1) : s[k] # "."
             integer == SubSeq(s, 1, i - 1)
             decimal == SubSeq(s, i + 1, Len(s))
         IN Exact(ParseInt(integer \o decimal), Pow10(Len(decimal)))
    ELSE Number_new(ParseInt(s))

(***************************************************************************)
(* units.rs: BaseUnit(long, short), Unit(scale, powers), Quantity.         *)
(* powers is a BTreeMap<BaseUnit, Ratio<i32>>: a function from base units  *)
(* to reduced ratios <<n, d>>.                                             *)
(***************************************************************************)
BaseUnit(long_name, short_name) == <<long_name, short_name>>

Ratio_new(n, d) ==
    LET g == GCD(Abs(n), Abs(d))
        s == IF d < 0 THEN -1 ELSE 1
    IN <<(s * n) \div g, (s * d) \div g>>

Ratio_add(a, b) == Ratio_new(a[1] * b[2] + b[1] * a[2], a[2] * b[2])

Ratio_sub(a, b) == Ratio_new(a[1] * b[2] - b[1] * a[2], a[2] * b[2])

Unit(scale, powers) == [scale |-> scale, powers |-> powers]

unitless == Unit(Number_one, EmptyMap)

rescaled(unit, scale) == Unit(Number_mul(unit.scale, scale), unit.powers)

PowGet(pow, base) == IF base \in DOMAIN pow THEN pow[base] ELSE Ratio_new(0, 1)

Unit_mul(u1, u2) ==
    Unit(Number_mul(u1.scale, u2.scale),
         [base \in (DOMAIN u1.powers) \cup (DOMAIN u2.powers) |->
             Ratio_add(PowGet(u1.powers, base), PowGet(u2.powers, base))])

Unit_div(u1, u2) ==
    Unit(Number_div(u1.scale, u2.scale),
         [base \in (DOMAIN u1.powers) \cup (DOMAIN u2.powers) |->
             Ratio_sub(PowGet(u1.powers, base), PowGet(u2.powers, base))])

Quantity(number, unit) == [number |-> number, unit |-> unit]

\* Result<Quantity, Error>: ok = FALSE is Err(InvalidUnitOperation)
Quantity_add(a, b) ==
    IF a.unit.powers # b.unit.powers
    THEN [ok |-> FALSE, q |-> a]
    ELSE [ok |-> TRUE,
          q |-> Quantity(Number_add(a.number,
                                    Number_div(Number_mul(b.number, b.unit.scale), a.unit.scale)),
                         Unit(a.unit.scale, a.unit.powers))]

Quantity_sub(a, b) ==
    IF a.unit.powers # b.unit.powers
    THEN [ok |-> FALSE, q |-> a]
    ELSE [ok |-> TRUE,
          q |-> Quantity(Number_sub(a.number,
                                    Number_div(Number_mul(b.number, b.unit.scale), a.unit.scale)),
                         Unit(a.unit.scale, a.unit.powers))]

Quantity_mul(a, b) == Quantity(Number_mul(a.number, b.number), Unit_mul(a.unit, b.unit))

Quantity_div(a, b) == Quantity(Number_div(a.number, b.number), Unit_div(a.unit, b.unit))

Quantity_neg(a) == Quantity(Number_neg(a.number), a.unit)

\* variant: the quantity is relabelled with the target unit, not rescaled
try_convert_Relabel(a, target_unit) ==
    IF a.unit.powers # target_unit.powers
    THEN None
    ELSE Some(Quantity(a.number, target_unit))

\* Option<Quantity>
try_convert(a, target_unit) ==
    IF a.unit.powers # target_unit.powers
    THEN None
    ELSE Some(Quantity(Number_div(Number_mul(a.number, a.unit.scale), target_unit.scale),
                       target_unit))

\* a panic raised while the quantity was computed
QuantityPanicked(q) == q.number.form = "Panic" \/ q.unit.scale.form = "Panic"

(***************************************************************************)
(* trie.rs: Node { path, val, edges }; StringTrie wraps the root node.     *)
(***************************************************************************)
Node_new == [path |-> <<>>, val |-> None, edges |-> EmptyMap]

Node_new_with_path(path) == [path |-> path, val |-> None, edges |-> EmptyMap]

StringTrie_new == Node_new

\* returns the node after the insertion and the previous value
RECURSIVE Node_insert(_, _, _, _)
Node_insert(node, depth, path, val) ==
    IF depth = Len(path)
    THEN [node |-> [node EXCEPT !.val = Some(val)], ret |-> node.val]
    ELSE LET head == path[depth + 1]
             next == IF head \in DOMAIN node.edges
                     THEN node.edges[head]
                     ELSE Node_new_with_path(SubSeq(path, 1, depth + 1))
             r == Node_insert(next, depth + 1, path, val)
         IN [node |-> [node EXCEPT !.edges = MapPut(@, head, r.node)], ret |-> r.ret]

\* the (key, value) pairs on the walk along arr, shortest key first
RECURSIVE Node_search(_, _, _)
\* variant: the node at the end of the walk does not report its own value
Node_search_Shallow(node, acc, arr) ==
    LET res == IF node.val.some THEN << <<acc, node.val.v>> >> ELSE <<>>
    IN IF arr = <<>> THEN <<>>
       ELSE LET head == arr[1]
            IN IF head \in DOMAIN node.edges
               THEN res \o Node_search(node.edges[head], Append(acc, head), Tail(arr))
               ELSE res

Node_search(node, acc, arr) ==
    LET res == IF node.val.some THEN << <<acc, node.val.v>> >> ELSE <<>>
    IN IF arr = <<>> THEN res
       ELSE LET head == arr[1]
            IN IF head \in DOMAIN node.edges
               THEN res \o Node_search(node.edges[head], Append(acc, head), Tail(arr))
               ELSE res

\* the keys that hold a value (iteration order of the HashMap is not observable through any())
RECURSIVE Node_keys(_)
Node_keys(node) ==
    (IF node.val.some THEN {node.path} ELSE {})
        \cup UNION {Node_keys(node.edges[k]) : k \in DOMAIN node.edges}

StringTrie_contains_key(trie, key) == \E k \in Node_keys(trie) : k = key

StringTrie_search(trie, key) == Node_search(trie, <<>>, key)

StringTrie_insert(trie, key, val) == Node_insert(trie, 0, key, val)

\* returns the node after the removal and the previous value
RECURSIVE Node_remove(_, _, _)
Node_remove(node, depth, path) ==
    LET Below(head) ==
            LET Removed(r) ==
                    [node |-> [node EXCEPT !.edges = MapPut(@, head, r.node)], ret |-> r.ret]
            IN IF head \notin DOMAIN node.edges
               THEN [node |-> node, ret |-> None]
               ELSE Removed(Node_remove(node.edges[head], depth + 1, path))
    IN IF depth = Len(path)
       THEN [node |-> [node EXCEPT !.val = None], ret |-> node.val]
       ELSE Below(path[depth + 1])

\* returns the node after the purge and whether it can be removed; retain purges
\* every child and keeps (purged) the ones that cannot be removed
RECURSIVE Node_purge(_)
\* variant: a node without children is removed even when it holds a value
Node_purge_Eager(node) ==
    LET Retained(kept) ==
            LET Purged(edges) ==
                    [node |-> [node EXCEPT !.edges = edges], removable |-> edges = EmptyMap]
            IN Purged([k \in kept |-> Node_purge(node.edges[k]).node])
    IN Retained({k \in DOMAIN node.edges : ~Node_purge(node.edges[k]).removable})

Node_purge(node) ==
    LET Retained(kept) ==
            LET Purged(edges) ==
                    [node |-> [node EXCEPT !.edges = edges],
                     removable |-> edges = EmptyMap /\ ~node.val.some]
            IN Purged([k \in kept |-> Node_purge(node.edges[k]).node])
    IN Retained({k \in DOMAIN node.edges : ~Node_purge(node.edges[k]).removable})

\* the number of values: this node's and the sum over the children in keys
RECURSIVE Node_len(_)
RECURSIVE Node_len_children(_, _)
Node_len_children(node, keys) ==
    IF keys = {} THEN 0
    ELSE LET Rest(k) == Node_len(node.edges[k]) + Node_len_children(node, keys \ {k})
         IN Rest(CHOOSE k \in keys : TRUE)

Node_len(node) ==
    (IF node.val.some THEN 1 ELSE 0) + Node_len_children(node, DOMAIN node.edges)

\* the (path, value) pairs the iterator yields, in the order of the walk; the
\* order the HashMap yields the children in is unspecified
RECURSIVE Node_entries(_)
RECURSIVE Node_entries_children(_, _)
Node_entries_children(node, keys) ==
    IF keys = {} THEN <<>>
    ELSE LET Rest(k) == Node_entries(node.edges[k]) \o Node_entries_children(node, keys \ {k})
         IN Rest(CHOOSE k \in keys : TRUE)

Node_entries(node) ==
    (IF node.val.some THEN << <<node.path, node.val.v>> >> ELSE <<>>)
        \o Node_entries_children(node, DOMAIN node.edges)

\* std HashMap, the reference of tests::add_remove_len_purge
HashMap_get(map, key) == IF key \in DOMAIN map THEN Some(map[key]) ELSE None

HashMap_insert(map, key, val) == [map |-> MapPut(map, key, val), ret |-> HashMap_get(map, key)]

HashMap_remove(map, key) ==
    [map |-> [k \in (DOMAIN map) \ {key} |-> map[k]], ret |-> HashMap_get(map, key)]

(***************************************************************************)
(* eval.rs: Value, Error, Entry, VariableScope, Environment.               *)
(***************************************************************************)
Nothing == [tag |-> "Nothing"]

Bool(b) == [tag |-> "Bool", b |-> b]

QuantityValue(q) == [tag |-> "Quantity", q |-> q]

Function(body, parameters, fenv) ==
    [tag |-> "Function", body |-> body, parameters |-> parameters, env |-> fenv]

Error(kind, name) == [e |-> kind, name |-> name]

ErrorNode == Error("ErrorNode", NoName)

InvalidType == Error("InvalidType", NoName)

InvalidUnitOperation == Error("InvalidUnitOperation", NoName)

UnknownName(name) == Error("UnknownName", name)

UpdateNonExistentVar(name) == Error("UpdateNonExistentVar", name)

OccupiedName(name) == Error("OccupiedName", name)

Redeclaration(name) == Error("Redeclaration", name)

NoError == Error("None", NoName)

Entry(is_long_name, value) == [is_long_name |-> is_long_name, value |-> value]

\* a variant of is_true for which a quantity or a function counts as true
is_true_Lenient(value) ==
    CASE value.tag = "Nothing" -> [ok |-> TRUE, b |-> FALSE]
      [] value.tag = "Bool" -> [ok |-> TRUE, b |-> value.b]
      [] value.tag = "Quantity" -> [ok |-> TRUE, b |-> TRUE]
      [] value.tag = "Function" -> [ok |-> TRUE, b |-> TRUE]

\* Value::is_true: Result<bool, Error>
is_true(value) ==
    CASE value.tag = "Nothing" -> [ok |-> TRUE, b |-> FALSE]
      [] value.tag = "Bool" -> [ok |-> TRUE, b |-> value.b]
      [] value.tag = "Quantity" -> [ok |-> FALSE, b |-> FALSE]
      [] value.tag = "Function" -> [ok |-> FALSE, b |-> FALSE]

\* outer = 0 is Option::None
VariableScope_new == [table |-> EmptyMap, outer |-> 0]

RECURSIVE VariableScope_get_var(_, _, _)
VariableScope_get_var(scopes, id, name) ==
    IF name \in DOMAIN scopes[id].table
    THEN Some(scopes[id].table[name])
    ELSE IF scopes[id].outer # 0
         THEN VariableScope_get_var(scopes, scopes[id].outer, name)
         ELSE None

VariableScope_declare_var(scopes, id, name, value) ==
    [scopes EXCEPT ![id].table = MapPut(@, name, value)]

\* a variant of update_var that writes the current table whether or not it holds the name
VariableScope_update_var_Upsert(scopes, id, name, value) ==
    [ok |-> TRUE, scopes |-> [scopes EXCEPT ![id].table = MapPut(@, name, value)]]

RECURSIVE VariableScope_update_var(_, _, _, _)
VariableScope_update_var(scopes, id, name, value) ==
    IF name \in DOMAIN scopes[id].table
    THEN [ok |-> TRUE, scopes |-> [scopes EXCEPT ![id].table = MapPut(@, name, value)]]
    ELSE IF scopes[id].outer # 0
         THEN VariableScope_update_var(scopes, scopes[id].outer, name, value)
         ELSE [ok |-> FALSE, scopes |-> scopes]

\* Environment::without_prelude: one root scope, empty unit, name and prefix stores
without_prelude_store ==
    [scopes |-> <<VariableScope_new>>,
     units |-> EmptyMap,
     unit_names |-> EmptyMap,
     prefixes |-> StringTrie_new,
     trace |-> <<>>,
     depth |-> 0]

without_prelude_env == [variables |-> 1]

\* name.strip_prefix(prefix_name), prefix_name being a prefix of name
strip_prefix(name, prefix_name) == SubSeq(name, Len(prefix_name) + 1, Len(name))

\* variant: a prefix combines with a unit name of either kind
get_unit_AnyKind(s, name) ==
    LET Prefixed(found) ==
            LET Accepts(i) == strip_prefix(name, found[i][1]) \in DOMAIN s.units
                Rescaled(i) ==
                    [ok |-> TRUE,
                     unit |-> rescaled(s.units[strip_prefix(name, found[i][1])].value,
                                       found[i][2].value)]
            IN IF \E i \in 1..Len(found) : Accepts(i)
               THEN Rescaled(CHOOSE j \in 1..Len(found) :
                                 Accepts(j) /\ \A h \in 1..(j - 1) : ~Accepts(h))
               ELSE [ok |-> FALSE, unit |-> unitless]
    IN IF name \in DOMAIN s.units
       THEN [ok |-> TRUE, unit |-> s.units[name].value]
       ELSE Prefixed(StringTrie_search(s.prefixes, name))

\* Environment::get_unit: Result<Unit, Error>
get_unit(s, name) ==
    LET Prefixed(found) ==
            LET Accepts(i) ==
                    /\ strip_prefix(name, found[i][1]) \in DOMAIN s.units
                    /\ s.units[strip_prefix(name, found[i][1])].is_long_name
                          = found[i][2].is_long_name
                Rescaled(i) ==
                    [ok |-> TRUE,
                     unit |-> rescaled(s.units[strip_prefix(name, found[i][1])].value,
                                       found[i][2].value)]
            IN IF \E i \in 1..Len(found) : Accepts(i)
               THEN Rescaled(CHOOSE j \in 1..Len(found) :
                                 Accepts(j) /\ \A h \in 1..(j - 1) : ~Accepts(h))
               ELSE [ok |-> FALSE, unit |-> unitless]
    IN IF name \in DOMAIN s.units
       THEN [ok |-> TRUE, unit |-> s.units[name].value]
       ELSE Prefixed(StringTrie_search(s.prefixes, name))

\* Environment::get_var: Result<Value, Error>
Environment_get_var(e, s, name) ==
    LET Lookup(v) ==
            IF v.some
            THEN [ok |-> TRUE, value |-> v.v, error |-> NoError]
            ELSE [ok |-> FALSE, value |-> Nothing, error |-> UnknownName(name)]
        UnitFirst(u) ==
            IF u.ok
            THEN [ok |-> TRUE, value |-> QuantityValue(Quantity(Number_one, u.unit)),
                  error |-> NoError]
            ELSE Lookup(VariableScope_get_var(s.scopes, e.variables, name))
    IN UnitFirst(get_unit(s, name))

\* Environment::update_var: Result<(), Error> and the store afterwards
Environment_update_var(e, s, name, value) ==
    LET Updated(r) ==
            IF r.ok
            THEN [ok |-> TRUE, error |-> NoError, st |-> [s EXCEPT !.scopes = r.scopes]]
            ELSE [ok |-> FALSE, error |-> UpdateNonExistentVar(name), st |-> s]
    IN IF get_unit(s, name).ok
       THEN [ok |-> FALSE, error |-> OccupiedName(name), st |-> s]
       ELSE Updated(VariableScope_update_var(s.scopes, e.variables, name, value))

\* a variant of declare_var without the unit check
Environment_declare_var_Unchecked(e, s, name, value) ==
    [ok |-> TRUE, error |-> NoError,
     st |-> [s EXCEPT !.scopes = VariableScope_declare_var(@, e.variables, name, value)]]

\* Environment::declare_var
Environment_declare_var(e, s, name, value) ==
    IF get_unit(s, name).ok
    THEN [ok |-> FALSE, error |-> OccupiedName(name), st |-> s]
    ELSE [ok |-> TRUE, error |-> NoError,
          st |-> [s EXCEPT !.scopes = VariableScope_declare_var(@, e.variables, name, value)]]

\* variant: a name that already names a unit keeps the unit it has
declare_unit_KeepFirst(s, long_name, short_name, derivation) ==
    LET Keep(units, name, entry) ==
            IF name \in DOMAIN units THEN units ELSE MapPut(units, name, entry)
        Insert(derived_unit) ==
            LET WithLong(units) ==
                    IF short_name # NoName
                    THEN Keep(units, short_name, Entry(FALSE, derived_unit))
                    ELSE units
                Named(names) ==
                    IF derived_unit.powers \in DOMAIN s.unit_names
                    THEN MapPut(s.unit_names, derived_unit.powers,
                                s.unit_names[derived_unit.powers] \cup {names})
                    ELSE MapPut(s.unit_names, derived_unit.powers, {names})
            IN [ok |-> TRUE, error |-> NoError,
                st |-> [s EXCEPT
                          !.units = WithLong(Keep(s.units, long_name,
                                                  Entry(TRUE, derived_unit))),
                          !.unit_names = Named(<<long_name, short_name>>)]]
    IN IF derivation.some /\ derivation.v.tag # "Quantity"
       THEN [ok |-> FALSE, error |-> InvalidType, st |-> s]
       ELSE IF derivation.some
            THEN Insert(Unit(Number_mul(derivation.v.q.number, derivation.v.q.unit.scale),
                             derivation.v.q.unit.powers))
            ELSE Insert(Unit(Number_one,
                             MapPut(EmptyMap, BaseUnit(long_name, short_name),
                                    Ratio_new(1, 1))))

\* Environment::declare_unit; derivation is an Option<Value>
declare_unit(s, long_name, short_name, derivation) ==
    LET Insert(derived_unit) ==
            LET WithLong(units) ==
                    IF short_name # NoName
                    THEN MapPut(units, short_name, Entry(FALSE, derived_unit))
                    ELSE units
                Named(names) ==
                    IF derived_unit.powers \in DOMAIN s.unit_names
                    THEN MapPut(s.unit_names, derived_unit.powers,
                                s.unit_names[derived_unit.powers] \cup {names})
                    ELSE MapPut(s.unit_names, derived_unit.powers, {names})
            IN [ok |-> TRUE, error |-> NoError,
                st |-> [s EXCEPT
                          !.units = WithLong(MapPut(s.units, long_name,
                                                    Entry(TRUE, derived_unit))),
                          !.unit_names = Named(<<long_name, short_name>>)]]
    IN IF derivation.some /\ derivation.v.tag # "Quantity"
       THEN [ok |-> FALSE, error |-> InvalidType, st |-> s]
       ELSE IF derivation.some
            THEN Insert(Unit(Number_mul(derivation.v.q.number, derivation.v.q.unit.scale),
                             derivation.v.q.unit.powers))
            ELSE Insert(Unit(Number_one,
                             MapPut(EmptyMap, BaseUnit(long_name, short_name),
                                    Ratio_new(1, 1))))

\* Environment::push_scope: a new node whose outer is the current one becomes current
push_scope(e, s) ==
    [env |-> [e EXCEPT !.variables = Len(s.scopes) + 1],
     st |-> [s EXCEPT !.scopes = Append(@, [table |-> EmptyMap, outer |-> e.variables])]]

\* a variant of pop_scope that leaves the current node in place
pop_scope_Keep(e, s) == [panic |-> FALSE, env |-> e]

\* Environment::pop_scope: panics when the current node has no outer
pop_scope(e, s) ==
    IF s.scopes[e.variables].outer # 0
    THEN [panic |-> FALSE, env |-> [e EXCEPT !.variables = s.scopes[e.variables].outer]]
    ELSE [panic |-> TRUE, env |-> e]

\* Environment::declare_prefix
declare_prefix(s, name, value, is_long_name) ==
    IF StringTrie_contains_key(s.prefixes, name)
    THEN [ok |-> FALSE, error |-> OccupiedName(name), st |-> s]
    ELSE [ok |-> TRUE, error |-> NoError,
          st |-> [s EXCEPT !.prefixes =
                      StringTrie_insert(@, name, Entry(is_long_name, value)).node]]

\* Environment::get_unit_names
get_unit_names(s, base_units) ==
    IF base_units \in DOMAIN s.unit_names THEN s.unit_names[base_units] ELSE {}

\* format_unit: the loop over the matches, which the HashSet yields in the
\* order given; best is (best_diff, best_match)
RECURSIVE format_unit_matches(_, _, _, _, _)
format_unit_matches(order, i, scale, s, best) ==
    LET Compare(other, diff) ==
            LET Saved(b) ==
                    IF diff = Number_zero THEN b
                    ELSE format_unit_matches(order, i + 1, scale, s, b)
            IN IF ~best.some \/ Number_lt(diff, best.diff)
               THEN Saved([some |-> TRUE, diff |-> diff, match |-> order[i]])
               ELSE Saved(best)
        Looked(u) ==
            IF ~u.ok THEN format_unit_matches(order, i + 1, scale, s, best)
            ELSE Compare(u.unit.scale, Number_abs(Number_sub(u.unit.scale, scale)))
    IN IF i > Len(order) THEN best
       ELSE Looked(get_unit(s, order[i][1]))

\* format_unit(quantity, env): the rescaled quantity and the name of its unit,
\* which is the rendering of the rescaled unit when no named unit matches
format_unit(quantity, s, order) ==
    LET Rescaled(q, matched, name) ==
            [status |-> IF QuantityPanicked(q) THEN "Panic" ELSE "Ok",
             quantity |-> q, matched |-> matched, name |-> name]
        Unnamed(rescaled_unit) ==
            Rescaled(Quantity(Number_mul(quantity.number, quantity.unit.scale), rescaled_unit),
                     FALSE, <<rescaled_unit, NoName>>)
        Named(target, name) ==
            Rescaled(Quantity(Number_div(Number_mul(quantity.number, quantity.unit.scale),
                                         target.scale),
                              Unit(target.scale, quantity.unit.powers)),
                     TRUE, name)
        Chosen(best) ==
            IF ~best.some
            THEN Unnamed(rescaled(quantity.unit, Number_div(Number_one, quantity.unit.scale)))
            ELSE Named(get_unit(s, best.match[1]).unit, best.match)
    IN Chosen(format_unit_matches(order, 1, quantity.unit.scale, s,
                                  [some |-> FALSE, diff |-> Number_zero,
                                   match |-> <<NoName, NoName>>]))

(***************************************************************************)
(* expr.rs: the expression tree.                                           *)
(***************************************************************************)
ExprError == [kind |-> "Error"]

LiteralNothing == [kind |-> "Literal", literal |-> [t |-> "Nothing"]]

LiteralBool(b) == [kind |-> "Literal", literal |-> [t |-> "Bool", b |-> b]]

\* Literal::Quantity(NumberLiteral::Decimal(number), name)
LiteralQuantity(number, name) ==
    [kind |-> "Literal", literal |-> [t |-> "Quantity", number |-> number, name |-> name]]

Variable(name) == [kind |-> "Variable", name |-> name]

VarDeclaration(name, rhs) == [kind |-> "VarDeclaration", name |-> name, rhs |-> rhs]

VarUpdate(name, rhs) == [kind |-> "VarUpdate", name |-> name, rhs |-> rhs]

Call(callable, arguments) == [kind |-> "Call", callable |-> callable, arguments |-> arguments]

If(cond, a, b) == [kind |-> "If", cond |-> cond, a |-> a, b |-> b]

Block(expressions) == [kind |-> "Block", expressions |-> expressions]

Program(expressions) == [kind |-> "Program", expressions |-> expressions]

BinOp(op, a, b) == [kind |-> "BinOp", op |-> op, a |-> a, b |-> b]

FunctionDecl(name, parameters, body) ==
    [kind |-> "FunctionDecl", name |-> name, parameters |-> parameters, body |-> body]

FunctionUpdate(name, parameters, body) ==
    [kind |-> "FunctionUpdate", name |-> name, parameters |-> parameters, body |-> body]

BaseUnitDecl(long_name, short_name) ==
    [kind |-> "BaseUnitDecl", long_name |-> long_name, short_name |-> short_name]

DerivedUnitDecl(long_name, short_name, rhs) ==
    [kind |-> "DerivedUnitDecl", long_name |-> long_name, short_name |-> short_name, rhs |-> rhs]

PrefixDecl(long_name, short_name, rhs) ==
    [kind |-> "PrefixDecl", long_name |-> long_name, short_name |-> short_name, rhs |-> rhs]

UnaryOp(op, operand) == [kind |-> "UnaryOp", op |-> op, operand |-> operand]

(***************************************************************************)
(* eval.rs: eval.  A result carries the Result<Value, Error> (or the       *)
(* panic that unwinds the process), the caller's Environment value after   *)
(* the call (env is a &mut) and the store after the call.                  *)
(*                                                                         *)
(* st.trace is a history of the invocations of eval in the current run:    *)
(* one "enter" and one "exit" event per invocation, each with the          *)
(* expression, the Environment handle and the store at that moment.        *)
(***************************************************************************)
Ok(value, e, s) ==
    [status |-> "Ok", value |-> value, error |-> NoError, env |-> e, st |-> s]

Err(error, e, s) ==
    [status |-> "Err", value |-> Nothing, error |-> error, env |-> e, st |-> s]

Panic(e, s) ==
    [status |-> "Panic", value |-> Nothing, error |-> NoError, env |-> e, st |-> s]

\* the store without the history
Snap(s) ==
    [scopes |-> s.scopes, units |-> s.units, unit_names |-> s.unit_names,
     prefixes |-> s.prefixes]

EnterEvent(expr, e, s) ==
    [ev |-> "enter", expr |-> expr, env |-> e, snap |-> Snap(s), depth |-> s.depth + 1]

ExitEvent(expr, enter, r, depth) ==
    [ev |-> "exit", expr |-> expr, env |-> r.env, snap |-> Snap(r.st), depth |-> depth,
     enter |-> enter, status |-> r.status, value |-> r.value, error |-> r.error]

RECURSIVE eval(_, _, _)
RECURSIVE eval_block(_, _, _, _)
RECURSIVE eval_arguments(_, _, _, _, _)

\* eval_literal
eval_literal(literal, e, s) ==
    LET WithUnit(u) ==
            IF ~u.ok
            THEN Err(UnknownName(literal.name), e, s)
            ELSE Ok(QuantityValue(Quantity(from_decimal_str(literal.number), u.unit)), e, s)
    IN CASE literal.t = "Nothing" -> Ok(Nothing, e, s)
         [] literal.t = "Bool" -> Ok(Bool(literal.b), e, s)
         [] literal.t = "Quantity" ->
               IF literal.name # NoName
               THEN WithUnit(get_unit(s, literal.name))
               ELSE WithUnit([ok |-> TRUE, unit |-> unitless])

\* Expr::Variable
eval_Variable(expr, e, s) ==
    LET Found(r) == IF r.ok THEN Ok(r.value, e, s) ELSE Err(r.error, e, s)
    IN Found(Environment_get_var(e, s, expr.name))

\* Expr::VarDeclaration
eval_VarDeclaration(expr, e, s) ==
    LET Declare(r) ==
            LET Declared(d) ==
                    IF d.ok THEN Ok(r.value, r.env, d.st) ELSE Err(d.error, r.env, d.st)
            IN IF r.status # "Ok" THEN r
               ELSE Declared(Environment_declare_var(r.env, r.st, expr.name, r.value))
    IN Declare(eval(expr.rhs, e, s))

\* Expr::VarUpdate
eval_VarUpdate(expr, e, s) ==
    LET Update(r) ==
            LET Updated(d) ==
                    IF d.ok THEN Ok(r.value, r.env, d.st) ELSE Err(d.error, r.env, d.st)
            IN IF r.status # "Ok" THEN r
               ELSE Updated(Environment_update_var(r.env, r.st, expr.name, r.value))
    IN Update(eval(expr.rhs, e, s))

\* arguments.iter().map(|arg| eval(arg, env)).collect(): every argument is evaluated,
\* the Results are collected
eval_arguments(arguments, i, e, s, acc) ==
    LET Collect(r) ==
            IF r.status = "Panic"
            THEN [status |-> "Panic", values |-> acc, env |-> r.env, st |-> r.st]
            ELSE eval_arguments(arguments, i + 1, r.env, r.st,
                                Append(acc, [status |-> r.status, value |-> r.value,
                                             error |-> r.error]))
    IN IF i > Len(arguments)
       THEN [status |-> "Ok", values |-> acc, env |-> e, st |-> s]
       ELSE Collect(eval(arguments[i], e, s))

\* for (name, value) in parameters.zip(values) { env.declare_var(name, &value?)?; }
\* env is the environment of the call site
RECURSIVE declare_parameters(_, _, _, _, _)
declare_parameters(parameters, values, i, e, s) ==
    LET Declared(d) ==
            IF ~d.ok THEN d ELSE declare_parameters(parameters, values, i + 1, e, d.st)
    IN IF i > Len(parameters) \/ i > Len(values)
       THEN [ok |-> TRUE, error |-> NoError, st |-> s]
       ELSE IF values[i].status # "Ok"
            THEN [ok |-> FALSE, error |-> values[i].error, st |-> s]
            ELSE Declared(Environment_declare_var(e, s, parameters[i], values[i].value))

\* Expr::Call
eval_Call(expr, e, s) ==
    LET Apply(c) ==
            \* function.env.push_scope(): function is the local copy of the value
            LET Pushed(function, p) ==
                    LET Bind(a) ==
                            LET Body(d) ==
                                    LET Return(r) == [r EXCEPT !.env = a.env]
                                    IN IF ~d.ok THEN Err(d.error, a.env, d.st)
                                       ELSE Return(eval(function.body, p.env, d.st))
                            IN IF a.status = "Panic" THEN Panic(a.env, a.st)
                               ELSE Body(declare_parameters(function.parameters, a.values, 1,
                                                            a.env, a.st))
                    IN Bind(eval_arguments(expr.arguments, 1, c.env, p.st, <<>>))
            IN IF c.status # "Ok" THEN c
               ELSE IF c.value.tag # "Function" THEN Err(InvalidType, c.env, c.st)
               ELSE IF Len(c.value.parameters) # Len(expr.arguments)
                    THEN Err(InvalidType, c.env, c.st)
               ELSE Pushed(c.value, push_scope(c.value.env, c.st))
    IN Apply(eval(expr.callable, e, s))

\* a variant of FunctionDecl whose closure captures a copy of the current scope node
eval_FunctionDecl_Copy(expr, e, s) ==
    LET Declare(s1) ==
            LET Captured(function) ==
                    LET Declared(d) ==
                            IF d.ok THEN Ok(function, e, d.st) ELSE Err(d.error, e, d.st)
                    IN Declared(Environment_declare_var(e, s1, expr.name, function))
            IN Captured(Function(expr.body, expr.parameters,
                                 [e EXCEPT !.variables = Len(s1.scopes)]))
    IN Declare([s EXCEPT !.scopes = Append(@, s.scopes[e.variables])])

\* Expr::FunctionDecl
eval_FunctionDecl(expr, e, s) ==
    LET Declare(function) ==
            LET Declared(d) == IF d.ok THEN Ok(function, e, d.st) ELSE Err(d.error, e, d.st)
            IN Declared(Environment_declare_var(e, s, expr.name, function))
    IN Declare(Function(expr.body, expr.parameters, e))

\* Expr::FunctionUpdate
eval_FunctionUpdate(expr, e, s) ==
    LET Update(function) ==
            LET Updated(d) == IF d.ok THEN Ok(function, e, d.st) ELSE Err(d.error, e, d.st)
            IN Updated(Environment_update_var(e, s, expr.name, function))
    IN Update(Function(expr.body, expr.parameters, e))

\* Expr::If
eval_If(expr, e, s) ==
    LET Branch(c) ==
            LET Dispatch(t) ==
                    IF ~t.ok THEN Err(InvalidType, c.env, c.st)
                    ELSE IF t.b THEN eval(expr.a, c.env, c.st)
                    ELSE eval(expr.b, c.env, c.st)
            IN IF c.status # "Ok" THEN c ELSE Dispatch(is_true(c.value))
    IN Branch(eval(expr.cond, e, s))

\* Expr::Block
eval_Block(expr, e, s) ==
    LET Run(p) ==
            LET Leave(block_result) ==
                    LET Popped(q) ==
                            IF q.panic THEN Panic(block_result.env, block_result.st)
                            ELSE [block_result EXCEPT !.env = q.env]
                    IN IF block_result.status = "Panic" THEN block_result
                       ELSE Popped(pop_scope(block_result.env, block_result.st))
            IN Leave(eval_block(expr.expressions, 1, p.env, p.st))
    IN Run(push_scope(e, s))

\* Expr::BinOp
eval_BinOp(expr, e, s) ==
    LET Left(a) ==
            LET Right(b) ==
                    LET Result(r) ==
                            IF ~r.ok THEN Err(InvalidUnitOperation, b.env, b.st)
                            ELSE IF QuantityPanicked(r.q) THEN Panic(b.env, b.st)
                            ELSE Ok(QuantityValue(r.q), b.env, b.st)
                    IN IF b.status # "Ok" THEN b
                       ELSE IF b.value.tag # "Quantity" THEN Err(InvalidType, b.env, b.st)
                       ELSE CASE expr.op = "Add" -> Result(Quantity_add(a.value.q, b.value.q))
                              [] expr.op = "Sub" -> Result(Quantity_sub(a.value.q, b.value.q))
                              [] expr.op = "Div" ->
                                    Result([ok |-> TRUE,
                                            q |-> Quantity_div(a.value.q, b.value.q)])
                              [] expr.op = "Mul" ->
                                    Result([ok |-> TRUE,
                                            q |-> Quantity_mul(a.value.q, b.value.q)])
            IN IF a.status # "Ok" THEN a
               ELSE IF a.value.tag # "Quantity" THEN Err(InvalidType, a.env, a.st)
               ELSE Right(eval(expr.b, a.env, a.st))
    IN Left(eval(expr.a, e, s))

\* Expr::BaseUnitDecl
eval_BaseUnitDecl(expr, e, s) ==
    LET Declared(d) == IF d.ok THEN Ok(Nothing, e, d.st) ELSE Err(d.error, e, d.st)
    IN Declared(declare_unit(s, expr.long_name, expr.short_name, None))

\* Expr::DerivedUnitDecl
eval_DerivedUnitDecl(expr, e, s) ==
    LET Derive(r) ==
            LET Declared(d) ==
                    IF d.ok THEN Ok(Nothing, r.env, d.st) ELSE Err(d.error, r.env, d.st)
            IN IF r.status # "Ok" THEN r
               ELSE Declared(declare_unit(r.st, expr.long_name, expr.short_name, Some(r.value)))
    IN Derive(eval(expr.rhs, e, s))

\* Expr::PrefixDecl
eval_PrefixDecl(expr, e, s) ==
    LET Declare(r) ==
            LET Long(d1) ==
                    LET Short(d2) ==
                            IF ~d2.ok THEN Err(d2.error, r.env, d2.st)
                            ELSE Ok(Nothing, r.env, d2.st)
                    IN IF ~d1.ok THEN Err(d1.error, r.env, d1.st)
                       ELSE IF expr.short_name = NoName THEN Ok(Nothing, r.env, d1.st)
                       ELSE Short(declare_prefix(d1.st, expr.short_name,
                                                 r.value.q.number, FALSE))
            IN IF r.status # "Ok" THEN r
               ELSE IF r.value.tag # "Quantity" THEN Err(InvalidType, r.env, r.st)
               ELSE Long(declare_prefix(r.st, expr.long_name, r.value.q.number, TRUE))
    IN Declare(eval(expr.rhs, e, s))

\* Expr::UnaryOp
eval_UnaryOp(expr, e, s) ==
    LET Operate(r) ==
            IF r.status # "Ok" THEN r
            ELSE IF expr.op = "Negate"
                 THEN IF r.value.tag # "Quantity" THEN Err(InvalidType, r.env, r.st)
                      ELSE Ok(QuantityValue(Quantity_neg(r.value.q)), r.env, r.st)
                 ELSE IF r.value.tag # "Bool" THEN Err(InvalidType, r.env, r.st)
                      ELSE Ok(Bool(~r.value.b), r.env, r.st)
    IN Operate(eval(expr.operand, e, s))

\* walk depth outer links up from the scope id ("None" = 0 when the chain is shorter)
RECURSIVE OuterAt(_, _, _)
OuterAt(scopes, id, depth) ==
    IF id = 0 \/ depth = 0 THEN id ELSE OuterAt(scopes, scopes[id].outer, depth - 1)

\* the root of the chain of the scope id
RECURSIVE RootOf(_, _)
RootOf(scopes, id) == IF scopes[id].outer = 0 THEN id ELSE RootOf(scopes, scopes[id].outer)

\* a resolver-annotated reference: a unit of that name first, otherwise the variable
\* in the scope the resolver identified
eval_ResolvedVariable(expr, e, s) ==
    LET InScope(target) ==
            IF target # 0 /\ expr.name \in DOMAIN s.scopes[target].table
            THEN Ok(s.scopes[target].table[expr.name], e, s)
            ELSE Err(UnknownName(expr.name), e, s)
        UnitFirst(u) ==
            IF u.ok THEN Ok(QuantityValue(Quantity(Number_one, u.unit)), e, s)
            ELSE IF expr.scope.scope = "Global"
                 THEN InScope(RootOf(s.scopes, e.variables))
                 ELSE InScope(OuterAt(s.scopes, e.variables, expr.scope.depth))
    IN UnitFirst(get_unit(s, expr.name))

\* the match of eval
eval_match(expr, e, s) ==
    CASE expr.kind = "Error" -> Err(ErrorNode, e, s)
      [] expr.kind = "Literal" -> eval_literal(expr.literal, e, s)
      [] expr.kind = "Variable" -> eval_Variable(expr, e, s)
      [] expr.kind = "ResolvedVariable" -> eval_ResolvedVariable(expr, e, s)
      [] expr.kind = "VarDeclaration" -> eval_VarDeclaration(expr, e, s)
      [] expr.kind = "VarUpdate" -> eval_VarUpdate(expr, e, s)
      [] expr.kind = "Call" -> eval_Call(expr, e, s)
      [] expr.kind = "FunctionDecl" -> eval_FunctionDecl(expr, e, s)
      [] expr.kind = "FunctionUpdate" -> eval_FunctionUpdate(expr, e, s)
      [] expr.kind = "If" -> eval_If(expr, e, s)
      [] expr.kind = "Block" -> eval_Block(expr, e, s)
      [] expr.kind = "Program" -> eval_block(expr.expressions, 1, e, s)
      [] expr.kind = "BinOp" -> eval_BinOp(expr, e, s)
      [] expr.kind = "BaseUnitDecl" -> eval_BaseUnitDecl(expr, e, s)
      [] expr.kind = "DerivedUnitDecl" -> eval_DerivedUnitDecl(expr, e, s)
      [] expr.kind = "PrefixDecl" -> eval_PrefixDecl(expr, e, s)
      [] expr.kind = "UnaryOp" -> eval_UnaryOp(expr, e, s)

\* eval, with the history of its invocations; a recursion deeper than MaxDepth nested
\* invocations exhausts the stack and aborts the process
eval(expr, e, s) ==
    LET Entered(s0) ==
            LET Exited(r) ==
                    [r EXCEPT !.st = [@ EXCEPT
                        !.trace = Append(@, ExitEvent(expr, Len(s0.trace), r, s0.depth)),
                        !.depth = s.depth]]
            IN Exited(eval_match(expr, e, s0))
    IN IF s.depth >= MaxDepth THEN Panic(e, s)
       ELSE Entered([s EXCEPT !.trace = Append(@, EnterEvent(expr, e, s)), !.depth = @ + 1])

\* a variant of eval_block that goes on after a statement failed
eval_block_Continue(expressions, i, e, s) ==
    LET Continue(r) ==
            IF r.status = "Panic" THEN r ELSE eval_block(expressions, i + 1, r.env, r.st)
    IN IF i > Len(expressions) THEN Ok(Nothing, e, s)
       ELSE IF Len(expressions) = i THEN eval(expressions[i], e, s)
       ELSE Continue(eval(expressions[i], e, s))

\* eval_block: the loop over the expressions, from the i-th on
eval_block(expressions, i, e, s) ==
    LET Continue(r) ==
            IF r.status # "Ok" THEN r ELSE eval_block(expressions, i + 1, r.env, r.st)
    IN IF i > Len(expressions) THEN Ok(Nothing, e, s)
       ELSE IF Len(expressions) = i THEN eval(expressions[i], e, s)
       ELSE Continue(eval(expressions[i], e, s))

(***************************************************************************)
(* resolve.rs: the pass lib.rs::parse runs on the parsed tree.             *)
(* variables is the Vec<HashSet<String>> of declared names, root first.    *)
(* A result is Ok(()) with the rewritten tree, Err(error), or the panic    *)
(* of unreachable!().                                                      *)
(***************************************************************************)
Global == [scope |-> "Global", depth |-> 0]

Local(i) == [scope |-> "Local", depth |-> i]

ResolvedVariable(name, scope) == [kind |-> "ResolvedVariable", name |-> name, scope |-> scope]

ROk(expr, variables) ==
    [status |-> "Ok", error |-> NoError, expr |-> expr, variables |-> variables]

RErr(error, expr, variables) ==
    [status |-> "Err", error |-> error, expr |-> expr, variables |-> variables]

RPanic(expr, variables) ==
    [status |-> "Panic", error |-> NoError, expr |-> expr, variables |-> variables]

\* variant: the name is inserted in the root scope
InsertLast_Root(variables, name) == [variables EXCEPT ![1] = @ \cup {name}]

\* variables.last_mut().insert(name)
InsertLast(variables, name) == [variables EXCEPT ![Len(variables)] = @ \cup {name}]

\* variables.pop()
PopLast(variables) == SubSeq(variables, 1, Len(variables) - 1)

\* variant: the root scope is searched as well
resolve_Variable_WithRoot(expr, variables) ==
    LET n == Len(variables)
        Holds(i) == expr.name \in variables[n - i]
    IN IF \E i \in 0..(n - 1) : Holds(i)
       THEN LET i == CHOOSE j \in 0..(n - 1) : Holds(j) /\ \A h \in 0..(j - 1) : ~Holds(h)
            IN ROk(ResolvedVariable(expr.name, Local(i)), variables)
       ELSE ROk(ResolvedVariable(expr.name, Global), variables)

\* for (i, scope) in variables.iter().skip(1).rev().enumerate(): the first scope that holds name
resolve_Variable(expr, variables) ==
    LET n == Len(variables)
        Holds(i) == expr.name \in variables[n - i]
    IN IF \E i \in 0..(n - 2) : Holds(i)
       THEN LET i == CHOOSE j \in 0..(n - 2) : Holds(j) /\ \A h \in 0..(j - 1) : ~Holds(h)
            IN ROk(ResolvedVariable(expr.name, Local(i)), variables)
       ELSE ROk(ResolvedVariable(expr.name, Global), variables)

RECURSIVE resolve_helper(_, _)

\* for e in expressions { resolve_helper(e, variables)?; }
RECURSIVE resolve_each(_, _, _)
resolve_each(expressions, i, variables) ==
    IF i > Len(expressions) THEN ROk(expressions, variables)
    ELSE LET r == resolve_helper(expressions[i], variables)
             done == [expressions EXCEPT ![i] = r.expr]
         IN IF r.status # "Ok" THEN [r EXCEPT !.expr = done]
            ELSE resolve_each(done, i + 1, r.variables)

resolve_helper(expr, variables) ==
    CASE expr.kind = "Error" -> ROk(expr, variables)
      [] expr.kind = "Literal" -> ROk(expr, variables)
      [] expr.kind = "Variable" -> resolve_Variable(expr, variables)
      [] expr.kind = "ResolvedVariable" -> RPanic(expr, variables)
      [] expr.kind = "VarDeclaration" ->
            IF expr.name \in variables[Len(variables)]
            THEN RErr(Redeclaration(expr.name), expr, variables)
            ELSE LET r == resolve_helper(expr.rhs, InsertLast(variables, expr.name))
                 IN [r EXCEPT !.expr = [expr EXCEPT !.rhs = r.expr]]
      [] expr.kind = "VarUpdate" ->
            LET r == resolve_helper(expr.rhs, variables)
            IN [r EXCEPT !.expr = [expr EXCEPT !.rhs = r.expr]]
      [] expr.kind = "Call" ->
            LET c == resolve_helper(expr.callable, variables)
            IN IF c.status # "Ok" THEN [c EXCEPT !.expr = [expr EXCEPT !.callable = c.expr]]
               ELSE LET a == resolve_each(expr.arguments, 1, c.variables)
                    IN [a EXCEPT !.expr = [expr EXCEPT !.callable = c.expr,
                                                       !.arguments = a.expr]]
      [] expr.kind = "If" ->
            LET c == resolve_helper(expr.cond, variables)
            IN IF c.status # "Ok" THEN [c EXCEPT !.expr = [expr EXCEPT !.cond = c.expr]]
               ELSE LET a == resolve_helper(expr.a, c.variables)
                    IN IF a.status # "Ok"
                       THEN [a EXCEPT !.expr = [expr EXCEPT !.cond = c.expr, !.a = a.expr]]
                       ELSE LET r == resolve_helper(expr.b, a.variables)
                            IN [r EXCEPT !.expr = [expr EXCEPT !.cond = c.expr,
                                                               !.a = a.expr, !.b = r.expr]]
      [] expr.kind = "Block" ->
            LET r == resolve_each(expr.expressions, 1, Append(variables, {}))
            IN IF r.status # "Ok" THEN [r EXCEPT !.expr = [expr EXCEPT !.expressions = r.expr]]
               ELSE ROk([expr EXCEPT !.expressions = r.expr], PopLast(r.variables))
      [] expr.kind = "Program" ->
            LET r == resolve_each(expr.expressions, 1, variables)
            IN [r EXCEPT !.expr = [expr EXCEPT !.expressions = r.expr]]
      [] expr.kind = "BinOp" ->
            LET a == resolve_helper(expr.a, variables)
            IN IF a.status # "Ok" THEN [a EXCEPT !.expr = [expr EXCEPT !.a = a.expr]]
               ELSE LET r == resolve_helper(expr.b, a.variables)
                    IN [r EXCEPT !.expr = [expr EXCEPT !.a = a.expr, !.b = r.expr]]
      [] expr.kind = "FunctionDecl" ->
            LET declared == InsertLast(variables, expr.name)
                function_scope == {expr.parameters[i] : i \in 1..Len(expr.parameters)}
                r == resolve_helper(expr.body, Append(declared, function_scope))
            IN IF r.status # "Ok" THEN [r EXCEPT !.expr = [expr EXCEPT !.body = r.expr]]
               ELSE ROk([expr EXCEPT !.body = r.expr], PopLast(r.variables))
      [] expr.kind = "FunctionUpdate" ->
            LET function_scope == {expr.parameters[i] : i \in 1..Len(expr.parameters)}
                r == resolve_helper(expr.body, Append(variables, function_scope))
            IN IF r.status # "Ok" THEN [r EXCEPT !.expr = [expr EXCEPT !.body = r.expr]]
               ELSE ROk([expr EXCEPT !.body = r.expr], PopLast(r.variables))
      [] expr.kind = "BaseUnitDecl" ->
            LET named == InsertLast(variables, expr.long_name)
            IN ROk(expr, IF expr.short_name # NoName
                         THEN InsertLast(named, expr.short_name)
                         ELSE named)
      [] expr.kind \in {"PrefixDecl", "DerivedUnitDecl"} ->
            LET named == InsertLast(variables, expr.long_name)
                scope == IF expr.short_name # NoName
                         THEN InsertLast(named, expr.short_name)
                         ELSE named
                r == resolve_helper(expr.rhs, scope)
            IN [r EXCEPT !.expr = [expr EXCEPT !.rhs = r.expr]]
      [] expr.kind = "UnaryOp" ->
            LET r == resolve_helper(expr.operand, variables)
            IN [r EXCEPT !.expr = [expr EXCEPT !.operand = r.expr]]

\* resolve: a single root scope at entry
resolve(expr) == resolve_helper(expr, <<{}>>)

(***************************************************************************)
(* The inputs of a session: identifiers, literals and programs.            *)
(***************************************************************************)
id_x == <<"x">>
id_y == <<"y">>
id_f == <<"f">>
id_g == <<"g">>
id_b == <<"b">>
id_m == <<"m">>
id_k == <<"k">>
id_meter == <<"m", "e", "t", "e", "r">>
id_kilo == <<"k", "i", "l", "o">>
id_km == id_k \o id_m
id_kilometer == id_kilo \o id_meter
id_kmeter == id_k \o id_meter

Num(digits) == LiteralQuantity(digits, NoName)

One == Num(<<"1">>)
Two == Num(<<"2">>)
Three == Num(<<"3">>)
Seven == Num(<<"7">>)
Zero == Num(<<"0">>)

False == LiteralBool(FALSE)
True == LiteralBool(TRUE)
Square == FunctionDecl(id_f, <<id_x>>, BinOp("Mul", Variable(id_x), Variable(id_x)))

\* if cond { a } with no else: the parser supplies Literal::Nothing (parser.rs if_)
IfNoElse(cond, a) == If(cond, a, LiteralNothing)

Programs ==
    { Program(<<>>),
      \* variables, blocks, updates
      Program(<<VarDeclaration(id_x, One)>>),
      Program(<<Variable(id_x)>>),
      Program(<<VarUpdate(id_x, Three)>>),
      Program(<<Block(<<VarDeclaration(id_x, Two), Variable(id_x)>>)>>),
      Program(<<Block(<<VarUpdate(id_x, Seven), VarDeclaration(id_y, Variable(id_x))>>), Variable(id_y)>>),
      Program(<<Block(<<VarDeclaration(id_x, Two), VarUpdate(id_x, Three),
                        Block(<<VarUpdate(id_x, Seven)>>), Variable(id_x)>>)>>),
      Program(<<VarDeclaration(id_y, Two), VarUpdate(id_b, One), VarDeclaration(id_x, Three)>>),
      Program(<<Block(<<Variable(id_g), VarDeclaration(id_x, Three)>>), VarDeclaration(id_y, One)>>),
      Program(<<Block(<<>>)>>),
      Program(<<VarDeclaration(id_x, One),
                Block(<<VarDeclaration(id_x, Two), VarUpdate(id_x, Three)>>),
                Block(<<VarDeclaration(id_x, Seven), VarUpdate(id_y, Seven)>>)>>),
      \* functions and closures
      Program(<<Square, Call(Variable(id_f), <<Seven>>)>>),
      Program(<<Call(Variable(id_f), <<Two>>)>>),
      Program(<<Block(<<Call(Variable(id_f), <<Three>>)>>)>>),
      Program(<<FunctionDecl(id_g, <<id_y>>, Call(Variable(id_f), <<Variable(id_y)>>)),
                Call(Variable(id_g), <<Two>>)>>),
      Program(<<VarDeclaration(id_g, Block(<<VarDeclaration(id_y, Two),
                                          FunctionDecl(id_f, <<>>, Variable(id_y))>>)),
                Call(Variable(id_g), <<>>)>>),
      Program(<<FunctionDecl(id_g, <<>>, Variable(id_b)), VarDeclaration(id_b, One),
                Call(Variable(id_g), <<>>)>>),
      Program(<<VarDeclaration(id_b, True),
                FunctionDecl(id_g, <<>>, If(Variable(id_b),
                                         Block(<<VarUpdate(id_b, False), Call(Variable(id_g), <<>>)>>),
                                         Block(<<Seven>>))),
                Call(Variable(id_g), <<>>)>>),
      Program(<<FunctionDecl(id_g, <<id_b>>, If(Variable(id_b),
                                          Block(<<Call(Variable(id_g), <<False>>)>>),
                                          Block(<<One>>))),
                Call(Variable(id_g), <<True>>)>>),
      Program(<<VarDeclaration(id_g, Block(<<VarDeclaration(id_b, True),
                    FunctionDecl(id_f, <<>>, If(Variable(id_b),
                                             Block(<<VarUpdate(id_b, False), Call(Variable(id_f), <<>>)>>),
                                             Block(<<Seven>>)))>>)),
                Call(Variable(id_g), <<>>)>>),
      Program(<<Call(Variable(id_f), <<One, Two>>)>>),
      Program(<<Call(Variable(id_x), <<One>>)>>),
      Program(<<Call(Variable(id_f), <<Variable(id_b)>>)>>),
      Program(<<FunctionUpdate(id_f, <<id_x>>, Variable(id_x))>>),
      \* if
      Program(<<If(True, Block(<<One>>), Block(<<Two>>))>>),
      Program(<<If(UnaryOp("Not", True), Block(<<VarUpdate(id_x, One)>>),
                   Block(<<VarUpdate(id_x, Two)>>))>>),
      Program(<<IfNoElse(False, Block(<<VarDeclaration(id_y, One)>>))>>),
      Program(<<IfNoElse(LiteralNothing, Block(<<VarUpdate(id_x, Seven)>>))>>),
      Program(<<If(Variable(id_x), Block(<<One>>), Block(<<Two>>))>>),
      Program(<<If(Variable(id_f), Block(<<One>>), Block(<<Two>>))>>),
      \* units and prefixes
      Program(<<BaseUnitDecl(id_meter, id_m)>>),
      Program(<<BaseUnitDecl(id_meter, id_m), VarDeclaration(id_meter, Three)>>),
      Program(<<BaseUnitDecl(id_meter, id_m), PrefixDecl(id_kilo, id_k, Num(<<"1", "0">>))>>),
      Program(<<PrefixDecl(id_kilo, id_k, Num(<<"1", "0">>))>>),
      Program(<<VarDeclaration(id_km, One)>>),
      Program(<<VarDeclaration(id_kilometer, One), VarDeclaration(id_m, Two)>>),
      Program(<<VarDeclaration(id_kmeter, One)>>),
      Program(<<FunctionDecl(id_km, <<id_x>>, Variable(id_x))>>),
      Program(<<VarUpdate(id_m, One)>>),
      Program(<<BaseUnitDecl(id_x, NoName)>>),
      Program(<<DerivedUnitDecl(id_y, NoName, LiteralQuantity(<<"2", ".", "5">>, id_km))>>),
      Program(<<DerivedUnitDecl(id_g, NoName, True)>>),
      \* arithmetic
      Program(<<BinOp("Add", LiteralQuantity(<<"1">>, id_km), LiteralQuantity(<<"5">>, id_m))>>),
      Program(<<BinOp("Sub", Variable(id_x), UnaryOp("Negate", Variable(id_meter)))>>),
      Program(<<BinOp("Div", Variable(id_x), Zero)>>)
    }

(***************************************************************************)
(* The session: cli main keeps one Environment and evaluates one input     *)
(* after the other in it.  Spec evaluates trees as eval accepts them;      *)
(* SpecPipeline runs lib.rs::parse's resolve pass first.                   *)
(***************************************************************************)
SessionInit ==
    /\ env = without_prelude_env
    /\ st = without_prelude_store
    /\ out = [status |-> "Ok", value |-> Nothing, error |-> NoError]
    /\ input = Program(<<>>)
    /\ inputs = 0

\* let mut hm = HashMap::new(); let mut tr = Trie::new();
TrieInit ==
    /\ tr = Node_new
    /\ hm = EmptyMap
    /\ ret = [op |-> "new", key |-> <<>>, a |-> None, b |-> None, found |-> <<>>]
    /\ ops = 0

\* no operation applied yet, to the quantities a and b
UnitsInit(a, b) ==
    /\ qa = a
    /\ qb = b
    /\ hist = <<>>

\* nothing parsed yet
ResolverInit ==
    /\ tree = Program(<<>>)
    /\ passes = <<>>

\* the prelude source bundled with the library: a base unit and a prefix of it
prelude_hyp ==
    Program(<<BaseUnitDecl(id_meter, id_m), PrefixDecl(id_kilo, id_k, Num(<<"1", "0">>))>>)

\* Environment::new: without_prelude().add_prelude(), the store behind it
Environment_new_store ==
    LET Parsed(p) ==
            LET Evaluated(r) == [r.st EXCEPT !.trace = <<>>]
            IN Evaluated(eval(p.expr, without_prelude_env, without_prelude_store))
    IN Parsed(resolve(prelude_hyp))

\* an Environment of the notebook: the store its Arcs point to and its scope
NotebookEnvironment(store, variables) == [store |-> store, variables |-> variables]

\* static ref EMPTY_ENV: Environment = Environment::new(), the first environment made
EMPTY_ENV == NotebookEnvironment(1, without_prelude_env.variables)

\* format_unit not called yet
FormatInit ==
    formatted = [called |-> FALSE, q |-> Quantity(Number_one, unitless), order |-> <<>>,
                 snap |-> Snap(without_prelude_store),
                 result |-> [status |-> "Ok", quantity |-> Quantity(Number_one, unitless),
                             matched |-> FALSE, name |-> <<unitless, NoName>>]]

\* static STATE = Mutex::new(Vec::new())
NotebookInit ==
    /\ cells = <<>>
    /\ stores = <<Environment_new_store>>
    /\ last = [op |-> "new", cell_index |-> 0, code |-> Program(<<>>),
               status |-> "Ok", returned |-> <<>>]
    /\ runs = <<>>
    /\ edits = 0

Init ==
    /\ SessionInit
    /\ TrieInit
    /\ UnitsInit(Quantity(Number_one, unitless), Quantity(Number_one, unitless))
    /\ ResolverInit
    /\ NotebookInit
    /\ FormatInit

\* eval(&ast, &mut env) on the session's environment
Eval(program) ==
    /\ inputs < MaxInputs
    /\ out.status # "Panic"
    /\ formatted.result.status # "Panic"
    /\ LET Evaluated(r) ==
               /\ out' = [status |-> r.status, value |-> r.value, error |-> r.error]
               /\ env' = r.env
               /\ st' = r.st
       IN Evaluated(eval(program, env, [st EXCEPT !.trace = <<>>]))
    /\ input' = program
    /\ inputs' = inputs + 1
    /\ UNCHANGED exceptSession

Next == \E program \in Programs : Eval(program)

Spec == Init /\ [][Next]_vars

\* run: parse (the resolve pass) and, when it accepts the program, eval
Run(program) ==
    /\ inputs < MaxInputs
    /\ out.status # "Panic"
    /\ formatted.result.status # "Panic"
    /\ LET Evaluated(r) ==
               /\ out' = [status |-> r.status, value |-> r.value, error |-> r.error]
               /\ env' = r.env
               /\ st' = r.st
           Parsed(p) ==
               IF p.status # "Ok"
               THEN /\ out' = [status |-> p.status, value |-> Nothing, error |-> p.error]
                    /\ env' = env
                    /\ st' = [st EXCEPT !.trace = <<>>]
               ELSE Evaluated(eval(p.expr, env, [st EXCEPT !.trace = <<>>]))
       IN Parsed(resolve(program))
    /\ input' = program
    /\ inputs' = inputs + 1
    /\ UNCHANGED exceptSession

NextPipeline == \E program \in Programs : Run(program)

SpecPipeline == Init /\ [][NextPipeline]_vars

(***************************************************************************)
(* trie.rs: a trie and a reference HashMap driven by the same operations,  *)
(* as tests::add_remove_len_purge drives them.                             *)
(***************************************************************************)
\* longest key
MaxKeyLen == 2

\* operations applied to the trie
MaxOps == 4

Alphabet == {"a", "b"}

Keys == UNION {[1..n -> Alphabet] : n \in 0..MaxKeyLen}

Values == {1, 2}

\* let a = hm.insert(key.clone(), *val); let b = tr.insert(key, *val);
Insert(key, val) ==
    /\ ops < MaxOps
    /\ LET Both(a, b) ==
               /\ hm' = a.map
               /\ tr' = b.node
               /\ ret' = [op |-> "insert", key |-> key, a |-> a.ret, b |-> b.ret,
                          found |-> <<>>]
       IN Both(HashMap_insert(hm, key, val), Node_insert(tr, 0, key, val))
    /\ ops' = ops + 1
    /\ UNCHANGED exceptTrie

\* let a = hm.remove(key); let b = tr.remove(key);
Remove(key) ==
    /\ ops < MaxOps
    /\ LET Both(a, b) ==
               /\ hm' = a.map
               /\ tr' = b.node
               /\ ret' = [op |-> "remove", key |-> key, a |-> a.ret, b |-> b.ret,
                          found |-> <<>>]
       IN Both(HashMap_remove(hm, key), Node_remove(tr, 0, key))
    /\ ops' = ops + 1
    /\ UNCHANGED exceptTrie

\* tr.purge();
Purge ==
    /\ ops < MaxOps
    /\ tr' = Node_purge(tr).node
    /\ ret' = [op |-> "purge", key |-> <<>>, a |-> None, b |-> None, found |-> <<>>]
    /\ ops' = ops + 1
    /\ UNCHANGED <<hm, exceptTrie>>

\* tr.search(key)
Search(key) ==
    /\ ret' = [op |-> "search", key |-> key, a |-> None, b |-> None,
               found |-> Node_search(tr, <<>>, key)]
    /\ UNCHANGED <<tr, hm, ops, exceptTrie>>

NextTrie ==
    \/ \E key \in Keys, val \in Values : Insert(key, val)
    \/ \E key \in Keys : Remove(key)
    \/ Purge
    \/ \E key \in Keys : Search(key)

SpecTrie == Init /\ [][NextTrie]_vars

\* the pairs of a sequence of pairs, as a set
Pairs(entries) == {entries[i] : i \in DOMAIN entries}

\* the pairs of the reference map
MapPairs(map) == {<<k, map[k]>> : k \in DOMAIN map}

\* C11: after every insert, remove and purge the trie agrees with the reference
\* map: insert and remove returned the map's previous value, len() is the map's
\* size, and entries() yields the map's pairs
C11_TrieRefinesMap ==
    /\ ret.op \in {"insert", "remove"} => ret.b = ret.a
    /\ Node_len(tr) = Cardinality(DOMAIN hm)
    /\ Pairs(Node_entries(tr)) = MapPairs(hm)

\* a remove returned the stored value and left a valueless node behind, next
\* to a key that is still stored
C11_Witness ==
    /\ ret.op = "remove"
    /\ ret.b = Some(2)
    /\ hm # EmptyMap
    /\ Node_purge(tr).node # tr

\* the stored pairs whose key is one of the first prefixes of arr, from length i on
RECURSIVE PrefixPairs(_, _, _)
PrefixPairs(map, arr, i) ==
    IF i > Len(arr) THEN <<>>
    ELSE (IF SubSeq(arr, 1, i) \in DOMAIN map
          THEN << <<SubSeq(arr, 1, i), map[SubSeq(arr, 1, i)]>> >>
          ELSE <<>>) \o PrefixPairs(map, arr, i + 1)

\* C12: search(K) returns exactly the stored pairs whose key is a prefix of K,
\* each once, shortest key first
C12_SearchYieldsStoredPrefixes ==
    /\ \A K \in Keys : Node_search(tr, <<>>, K) = PrefixPairs(hm, K, 0)
    /\ ret.op = "search" => ret.found = PrefixPairs(hm, ret.key, 0)

\* a search found the empty key and the searched key but not the prefix
\* between them, whose node holds no value
C12_Witness ==
    /\ ret.op = "search"
    /\ Len(ret.key) = 2
    /\ Len(ret.found) = 2
    /\ ret.found[1][1] = <<>>
    /\ ret.found[2][1] = ret.key
    /\ ret.key[1] \in DOMAIN tr.edges
    /\ Node_len(tr) = 2

(***************************************************************************)
(* units.rs: quantity arithmetic.  qa is the running result, qb the other  *)
(* operand; hist records every operation with its operands and outcome.    *)
(***************************************************************************)
\* operations applied to the quantities
MaxSteps == 3

Meter == BaseUnit(id_meter, id_m)

unit_0 == unitless

unit_m == Unit(Number_one, MapPut(EmptyMap, Meter, Ratio_new(1, 1)))

\* unit km = 10 m
unit_km == rescaled(unit_m, Number_new(10))

\* a unit declared from an approximate quantity
unit_approx == rescaled(unit_m, Approx(1, 2))

\* unit z = 0 m
unit_z == rescaled(unit_m, Number_zero)

Units == {unit_0, unit_m, unit_km, unit_approx, unit_z}

Quantities ==
    {Quantity(Number_new(3), u) : u \in Units} \cup
    {Quantity(Approx(1, 2), unit_m), Quantity(Exact(1, 2), unit_0)}

InitUnits ==
    /\ SessionInit
    /\ TrieInit
    /\ ResolverInit
    /\ NotebookInit
    /\ FormatInit
    /\ \E a \in Quantities, b \in Quantities : UnitsInit(a, b)

\* the program has not aborted
Running == IF hist = <<>> THEN TRUE ELSE hist[Len(hist)].status # "Panic"

Step(op, target, status, q) ==
    [op |-> op, a |-> qa, b |-> qb, target |-> target,
     status |-> IF QuantityPanicked(q) THEN "Panic" ELSE status, q |-> q]

\* the operation is recorded; a result replaces qa
Record(step) ==
    /\ Len(hist) < MaxSteps
    /\ Running
    /\ hist' = Append(hist, step)
    /\ qa' = IF step.status = "Ok" THEN step.q ELSE qa
    /\ UNCHANGED <<qb, exceptUnits>>

\* Result<Quantity, Error>
Fallible(op, r) == Record(Step(op, qb.unit, IF r.ok THEN "Ok" ELSE "Err", r.q))

\* qa + qb
Add == Fallible("Add", Quantity_add(qa, qb))

\* qa - qb
Sub == Fallible("Sub", Quantity_sub(qa, qb))

\* qa * qb
Mul == Record(Step("Mul", qb.unit, "Ok", Quantity_mul(qa, qb)))

\* qa / qb
Div == Record(Step("Div", qb.unit, "Ok", Quantity_div(qa, qb)))

\* -qa
Neg == Record(Step("Neg", qb.unit, "Ok", Quantity_neg(qa)))

\* qa.try_convert(target_unit)
Convert(target_unit) ==
    LET Converted(r) ==
            IF r.some THEN Record(Step("Convert", target_unit, "Ok", r.v))
            ELSE Record(Step("Convert", target_unit, "None", qa))
    IN Converted(try_convert(qa, target_unit))

\* the next operand
Load(q) ==
    /\ Len(hist) < MaxSteps
    /\ Running
    /\ qb' = q
    /\ hist' = Append(hist, [op |-> "Load", a |-> qa, b |-> q, target |-> q.unit,
                              status |-> "Loaded", q |-> q])
    /\ UNCHANGED <<qa, exceptUnits>>

NextUnits ==
    \/ Add
    \/ Sub
    \/ Mul
    \/ Div
    \/ Neg
    \/ \E target_unit \in Units : Convert(target_unit)
    \/ \E q \in Quantities : Load(q)

SpecUnits == InitUnits /\ [][NextUnits]_vars

\* the operations of the given kinds that were applied
StepsOf(kinds) == {i \in DOMAIN hist : hist[i].op \in kinds}

\* a power map as the multiset of its nonzero entries
NonzeroPowers(powers) ==
    [base \in {c \in DOMAIN powers : powers[c][1] # 0} |-> powers[base]]

\* rhs.number * rhs.scale / lhs.scale
Normalised(s) == Number_div(Number_mul(s.b.number, s.b.unit.scale), s.a.unit.scale)

\* C13: + and - succeed exactly when the two power maps agree on their nonzero
\* entries and fail with InvalidUnitOperation only otherwise; the result keeps
\* the left unit and its number is lhs.number +- rhs.number * rhs.scale / lhs.scale
C13_AddSubOnEqualSignatures ==
    \A i \in StepsOf({"Add", "Sub"}) :
        /\ hist[i].status = "Ok"
              <=> NonzeroPowers(hist[i].a.unit.powers) = NonzeroPowers(hist[i].b.unit.powers)
        /\ hist[i].status # "Ok" => hist[i].status = "Err"
        /\ hist[i].status = "Ok" =>
              /\ hist[i].q.unit = hist[i].a.unit
              /\ hist[i].q.number =
                    IF hist[i].op = "Add"
                    THEN Number_add(hist[i].a.number, Normalised(hist[i]))
                    ELSE Number_sub(hist[i].a.number, Normalised(hist[i]))

\* + and - never rejected two quantities whose power maps differ only in
\* entries with exponent 0
C13_ZeroExponentsAccepted ==
    \A i \in StepsOf({"Add", "Sub"}) :
        NonzeroPowers(hist[i].a.unit.powers) = NonzeroPowers(hist[i].b.unit.powers)
            => hist[i].status # "Err"

\* the number and the unit scale of the quantity are Exact
AllExact(q) == q.number.form = "Exact" /\ q.unit.scale.form = "Exact"

\* the additions of two exact quantities of equal dimensional signature
ExactSums ==
    {i \in StepsOf({"Add"}) :
        /\ AllExact(hist[i].a)
        /\ AllExact(hist[i].b)
        /\ NonzeroPowers(hist[i].a.unit.powers) = NonzeroPowers(hist[i].b.unit.powers)}

\* C14: for exact quantities a and b of equal dimensional signature, a + b is
\* defined, and subtracting b from it is defined and gives back a, number and unit
C14_AddThenSubIsIdentity ==
    \A i \in ExactSums :
        /\ hist[i].status = "Ok"
        /\ (i + 1 \in StepsOf({"Sub"})) =>
              /\ hist[i + 1].status = "Ok"
              /\ hist[i + 1].q = hist[i].a

\* number * scale
Magnitude(q) == Number_mul(q.number, q.unit.scale)

ExactConversions ==
    {i \in StepsOf({"Convert"}) :
        /\ AllExact(hist[i].a)
        /\ hist[i].target.scale.form = "Exact"
        /\ hist[i].target.scale # Number_zero}

NumbersAt == {qa.number, qb.number, qa.unit.scale, qb.unit.scale}

\* r is Exact exactly when a and b are, and Approx otherwise
FormFollows(r, a, b) ==
    /\ r.form \in {"Exact", "Approx"}
    /\ r.form = "Exact" <=> (a.form = "Exact" /\ b.form = "Exact")

\* C16: +, -, * and / on Numbers return Exact exactly when both operands are
\* Exact and Approx otherwise (Exact / Exact 0 alone returns nothing), negation
\* keeps the variant, and once a number of the running result is Approx every
\* later result is Approx
C16_ApproxIsSticky ==
    /\ \A a \in NumbersAt, b \in NumbersAt :
          /\ FormFollows(Number_add(a, b), a, b)
          /\ FormFollows(Number_sub(a, b), a, b)
          /\ FormFollows(Number_mul(a, b), a, b)
          /\ IF a.form = "Exact" /\ b = Number_zero
             THEN Number_div(a, b) = NumberPanic
             ELSE FormFollows(Number_div(a, b), a, b)
          /\ Number_neg(a).form = a.form
    /\ \A i \in DOMAIN hist, k \in DOMAIN hist :
          ( /\ i <= k
            /\ hist[i].a.number.form = "Approx"
            /\ hist[k].op # "Load"
            /\ hist[k].status = "Ok" ) => hist[k].q.number.form = "Approx"
    /\ \A i \in StepsOf({"Neg"}) : hist[i].q.number.form = hist[i].a.number.form

\* an Exact number was multiplied by an Approx one, the Approx result was
\* negated and then divided, and stayed Approx
C16_Witness ==
    /\ Len(hist) = 3
    /\ hist[1].op = "Mul"
    /\ hist[1].a.number.form = "Exact"
    /\ hist[1].b.number.form = "Approx"
    /\ hist[1].q.number.form = "Approx"
    /\ hist[2].op = "Neg"
    /\ hist[2].q.number.form = "Approx"
    /\ hist[3].op = "Div"
    /\ hist[3].status = "Ok"
    /\ hist[3].q.number.form = "Approx"

(***************************************************************************)
(* resolve.rs: lib.rs::parse resolves the parsed tree; a further pass is   *)
(* resolve applied to the tree a pass returned.                            *)
(***************************************************************************)
\* resolve passes run on one tree
MaxPasses == 3

ResolverPrograms ==
    Programs \cup
    { Program(<<VarDeclaration(id_x, One), VarDeclaration(id_x, Two)>>),
      Program(<<VarDeclaration(id_x, One), Block(<<VarDeclaration(id_x, Two),
                                                  VarDeclaration(id_x, Three)>>)>>),
      Program(<<Block(<<VarDeclaration(id_x, One)>>), VarDeclaration(id_x, Two)>>),
      Program(<<VarDeclaration(id_x, One), VarDeclaration(id_y, Variable(id_x)),
                Block(<<VarDeclaration(id_y, Two), Block(<<VarDeclaration(id_y, Three),
                                                           Variable(id_x)>>)>>)>>),
      Program(<<Square, VarDeclaration(id_f, One)>>),
      Program(<<FunctionDecl(id_f, <<id_x>>, Block(<<VarDeclaration(id_x, One)>>))>>),
      Program(<<FunctionDecl(id_f, <<id_x>>, VarDeclaration(id_x, One))>>),
      Program(<<FunctionDecl(id_f, <<id_x>>, VarDeclaration(id_f, Variable(id_x)))>>),
      Program(<<VarDeclaration(id_x, One),
                If(True, Block(<<VarDeclaration(id_x, Two)>>),
                         Block(<<VarDeclaration(id_x, Three)>>))>>),
      Program(<<VarDeclaration(id_y, One),
                IfNoElse(True, Block(<<VarDeclaration(id_x, Two), VarDeclaration(id_y, Two),
                                       VarDeclaration(id_x, Three)>>))>>),
      Program(<<PrefixDecl(id_kilo, id_k, One), VarDeclaration(id_k, Two)>>),
      Program(<<DerivedUnitDecl(id_y, NoName, One), Block(<<VarDeclaration(id_y, Two)>>)>>),
      \* references at several depths
      Program(<<Block(<<VarDeclaration(id_x, One),
                        Block(<<VarDeclaration(id_y, Two), Variable(id_x), Variable(id_y),
                                Block(<<Variable(id_x), Variable(id_g)>>)>>),
                        Variable(id_y)>>)>>),
      Program(<<FunctionDecl(id_f, <<id_x>>,
                             Block(<<Variable(id_x), Call(Variable(id_f), <<Variable(id_x)>>),
                                     FunctionDecl(id_g, <<id_y>>,
                                                  BinOp("Add", Variable(id_x),
                                                        Variable(id_y)))>>)),
                VarDeclaration(id_y, Variable(id_y)),
                Block(<<VarDeclaration(id_y, Variable(id_y))>>)>>)
    }

\* lib.rs::parse: resolve(ast)
Parse(program) ==
    /\ passes = <<>>
    /\ tree' = program
    /\ passes' = <<resolve(program)>>
    /\ UNCHANGED exceptResolver

\* resolve applied to the tree the last pass returned
ResolveAgain ==
    /\ passes # <<>>
    /\ Len(passes) < MaxPasses
    /\ passes[Len(passes)].status = "Ok"
    /\ passes' = Append(passes, resolve(passes[Len(passes)].expr))
    /\ UNCHANGED <<tree, exceptResolver>>

NextResolver ==
    \/ \E program \in ResolverPrograms : Parse(program)
    \/ ResolveAgain

SpecResolver == Init /\ [][NextResolver]_vars

\* The declarations of a tree in source order: <<"var", x>> for a variable
\* declaration, <<"name", x>> for a function, parameter, unit or prefix name,
\* <<"ref", x>> for a variable reference,
\* <<"open">> and <<"close">> around a block and around a function (its
\* parameters and its body).
RECURSIVE Events(_)
RECURSIVE EventsOf(_, _)
EventsOf(expressions, i) ==
    IF i > Len(expressions) THEN <<>>
    ELSE Events(expressions[i]) \o EventsOf(expressions, i + 1)

Names(names) == [i \in 1..Len(names) |-> <<"name", names[i]>>]

UnitNames(expr) ==
    IF expr.short_name = NoName THEN Names(<<expr.long_name>>)
    ELSE Names(<<expr.long_name, expr.short_name>>)

Events(expr) ==
    CASE expr.kind \in {"Error", "Literal", "ResolvedVariable"} -> <<>>
      [] expr.kind = "Variable" -> << <<"ref", expr.name>> >>
      [] expr.kind = "VarDeclaration" -> << <<"var", expr.name>> >> \o Events(expr.rhs)
      [] expr.kind = "VarUpdate" -> Events(expr.rhs)
      [] expr.kind = "Call" -> Events(expr.callable) \o EventsOf(expr.arguments, 1)
      [] expr.kind = "If" -> Events(expr.cond) \o Events(expr.a) \o Events(expr.b)
      [] expr.kind = "Block" ->
            << <<"open">> >> \o EventsOf(expr.expressions, 1) \o << <<"close">> >>
      [] expr.kind = "Program" -> EventsOf(expr.expressions, 1)
      [] expr.kind = "BinOp" -> Events(expr.a) \o Events(expr.b)
      [] expr.kind = "UnaryOp" -> Events(expr.operand)
      [] expr.kind = "FunctionDecl" ->
            Names(<<expr.name>>) \o << <<"open">> >> \o Names(expr.parameters)
                \o Events(expr.body) \o << <<"close">> >>
      [] expr.kind = "FunctionUpdate" ->
            << <<"open">> >> \o Names(expr.parameters) \o Events(expr.body)
                \o << <<"close">> >>
      [] expr.kind = "BaseUnitDecl" -> UnitNames(expr)
      [] expr.kind \in {"PrefixDecl", "DerivedUnitDecl"} -> UnitNames(expr) \o Events(expr.rhs)

\* the first variable declaration whose name is already declared in its own
\* scope: open is the stack of the sets of names declared in the open scopes
RECURSIVE FirstRedeclaration(_, _, _)
FirstRedeclaration(events, i, open) ==
    IF i > Len(events) THEN [some |-> FALSE, name |-> NoName, shadows |-> FALSE]
    ELSE CASE events[i][1] = "open" -> FirstRedeclaration(events, i + 1, Append(open, {}))
           [] events[i][1] = "close" ->
                 FirstRedeclaration(events, i + 1, SubSeq(open, 1, Len(open) - 1))
           [] events[i][1] = "ref" -> FirstRedeclaration(events, i + 1, open)
           [] events[i][1] = "name" ->
                 FirstRedeclaration(events, i + 1,
                                    [open EXCEPT ![Len(open)] = @ \cup {events[i][2]}])
           [] events[i][1] = "var" ->
                 IF events[i][2] \in open[Len(open)]
                 THEN [some |-> TRUE, name |-> events[i][2],
                       shadows |-> \E d \in 1..(Len(open) - 1) : events[i][2] \in open[d]]
                 ELSE FirstRedeclaration(events, i + 1,
                                         [open EXCEPT ![Len(open)] = @ \cup {events[i][2]}])

Redeclared(program) == FirstRedeclaration(Events(program), 1, <<{}>>)

\* a variable declared in a nested scope under a name of an enclosing scope
Shadowing(events) ==
    \E i \in DOMAIN events, k \in DOMAIN events :
        /\ i < k
        /\ events[i][1] \in {"var", "name"}
        /\ events[k] = <<"var", events[i][2]>>
        /\ \E h \in (i + 1)..(k - 1) : events[h] = <<"open">>
        /\ ~Redeclared(tree).some

\* C17: resolve rejects with Redeclaration every program that declares a
\* variable under a name already declared in the same scope, and accepts the
\* others, those that shadow a name of an enclosing scope in a nested block
\* or function scope among them
C17_RedeclarationRejected ==
    passes # <<>> =>
        /\ Redeclared(tree).some =>
              /\ passes[1].status = "Err"
              /\ passes[1].error = Redeclaration(Redeclared(tree).name)
        /\ ~Redeclared(tree).some => passes[1].status = "Ok"

\* a program that shadowed a name in a nested block and then declared the
\* same name again in that block was rejected
C17_Witness ==
    /\ passes # <<>>
    /\ Redeclared(tree).some
    /\ Redeclared(tree).shadows
    /\ passes[1].error = Redeclaration(Redeclared(tree).name)

\* a program that shadows a name of an enclosing scope was accepted
C17_ShadowingAccepted ==
    /\ passes # <<>>
    /\ Shadowing(Events(tree))
    /\ passes[1].status = "Ok"

\* the tree holds a variable reference
RECURSIVE HasVariable(_)
HasVariable(expr) ==
    CASE expr.kind \in {"Variable", "ResolvedVariable"} -> TRUE
      [] expr.kind \in {"Error", "Literal", "BaseUnitDecl"} -> FALSE
      [] expr.kind \in {"VarDeclaration", "VarUpdate", "PrefixDecl", "DerivedUnitDecl"} ->
            HasVariable(expr.rhs)
      [] expr.kind = "Call" ->
            \/ HasVariable(expr.callable)
            \/ \E i \in DOMAIN expr.arguments : HasVariable(expr.arguments[i])
      [] expr.kind = "If" ->
            HasVariable(expr.cond) \/ HasVariable(expr.a) \/ HasVariable(expr.b)
      [] expr.kind \in {"Block", "Program"} ->
            \E i \in DOMAIN expr.expressions : HasVariable(expr.expressions[i])
      [] expr.kind = "BinOp" -> HasVariable(expr.a) \/ HasVariable(expr.b)
      [] expr.kind = "UnaryOp" -> HasVariable(expr.operand)
      [] expr.kind \in {"FunctionDecl", "FunctionUpdate"} -> HasVariable(expr.body)

\* C18: resolve applied to the tree a successful resolve returned gives that
\* same tree back, without an error and without aborting, whether or not the
\* tree holds variable references
C18_ResolveIdempotent ==
    \A k \in 2..Len(passes) :
        /\ passes[k].status = "Ok"
        /\ passes[k].expr = passes[k - 1].expr

\* the same on the trees without a variable reference
C18_IdempotentWithoutVariables ==
    \A k \in 2..Len(passes) :
        ~HasVariable(tree) =>
            /\ passes[k].status = "Ok"
            /\ passes[k].expr = passes[k - 1].expr

\* on a tree with a variable reference the second pass aborts
C18_SecondPassAborts ==
    \A k \in 2..Len(passes) : HasVariable(tree) => passes[k].status = "Panic"

(***************************************************************************)
(* web_bindings/src/lib.rs: the notebook.  A cell of index i (from 0) is   *)
(* cells[i + 1].  The output of a cell is the value or the error its       *)
(* formats or its report are made from.                                    *)
(***************************************************************************)
\* cells of the notebook
MaxCells == 3

\* calls made on the notebook
MaxEdits == 5

CellSources ==
    { Program(<<VarDeclaration(id_x, One)>>),
      Program(<<VarDeclaration(id_x, Two)>>),
      Program(<<Variable(id_x)>>),
      Program(<<BaseUnitDecl(id_g, NoName)>>),
      Program(<<LiteralQuantity(<<"1">>, id_g)>>),
      Program(<<Block(<<VarDeclaration(id_x, Three), Variable(id_y)>>)>>) }

OutputOk(value) == [status |-> "Ok", formats |-> <<value>>, errors |-> <<>>]

OutputErr(error) == [status |-> "Err", formats |-> <<>>, errors |-> <<error>>]

\* the process aborted inside eval
OutputPanic == [status |-> "Panic", formats |-> <<>>, errors |-> <<>>]

\* run(code, &mut env): parse, then eval, in the environment e of the store s
run(code, e, s) ==
    LET Evaluated(r) ==
            [output |-> CASE r.status = "Ok" -> OutputOk(r.value)
                          [] r.status = "Err" -> OutputErr(r.error)
                          [] OTHER -> OutputPanic,
             environment |-> NotebookEnvironment(e.store, r.env.variables),
             st |-> [r.st EXCEPT !.trace = <<>>]]
        Parsed(p) ==
            CASE p.status = "Err" -> [output |-> OutputErr(p.error), environment |-> e, st |-> s]
              [] p.status = "Panic" -> [output |-> OutputPanic, environment |-> e, st |-> s]
              [] OTHER -> Evaluated(eval(p.expr, [variables |-> e.variables], s))
    IN Parsed(resolve(code))

\* the notebook a call works on: the cells, the stores and the cells run so far
Notebook(cs, ss, rs) == [cells |-> cs, stores |-> ss, runs |-> rs]

\* the environment a cell starts from: EMPTY_ENV.clone() or
\* cells[cell_index - 1].environment.clone()
InputEnvironment(cell_index, cs) ==
    IF cell_index = 0 THEN EMPTY_ENV ELSE cs[cell_index].environment

\* the cell run with the given code from the environment from
RunCell(cell_index, code, from, nb) ==
    LET Ran(r) ==
            Notebook([nb.cells EXCEPT ![cell_index + 1] =
                          [environment |-> r.environment, source_code |-> code,
                           runtime |-> TRUE, output |-> r.output]],
                     [nb.stores EXCEPT ![from.store] = r.st],
                     Append(nb.runs, [cell |-> cell_index, from |-> from, code |-> code,
                                      before |-> nb.stores[from.store], result |-> r]))
    IN Ran(run(code, from, nb.stores[from.store]))

\* variant: every cell is re-run from the base environment
refresh_FromBase(cell_index, nb) ==
    RunCell(cell_index, nb.cells[cell_index + 1].source_code, EMPTY_ENV, nb)

\* refresh(cell_index, cells)
refresh(cell_index, nb) ==
    RunCell(cell_index, nb.cells[cell_index + 1].source_code,
            InputEnvironment(cell_index, nb.cells), nb)

\* for dep_index in from..cells.len() { refresh(dep_index, &mut cells) }
RECURSIVE refresh_each(_, _)
refresh_each(dep_index, nb) ==
    IF dep_index >= Len(nb.cells) THEN nb
    ELSE refresh_each(dep_index + 1, refresh(dep_index, nb))

\* the indices from..(to - 1)
Range(from, to) == [k \in 1..(to - from) |-> from + k - 1]

\* a notebook call aborts the process when eval aborted in one of its cells
Aborted(rs) == \E k \in DOMAIN rs : rs[k].result.output.status = "Panic"

Called(op, cell_index, code, returned, nb) ==
    /\ cells' = nb.cells
    /\ stores' = nb.stores
    /\ runs' = nb.runs
    /\ last' = [op |-> op, cell_index |-> cell_index, code |-> code,
                status |-> IF Aborted(nb.runs) THEN "Panic" ELSE "Ok",
                returned |-> returned]

\* an index outside the vector: unwrap, expect, Vec::insert or Vec::remove panic
InvalidIndex(op, cell_index, code) ==
    /\ last' = [op |-> op, cell_index |-> cell_index, code |-> code,
                status |-> "Panic", returned |-> <<>>]
    /\ runs' = <<>>
    /\ UNCHANGED <<cells, stores>>

Callable ==
    /\ edits < MaxEdits
    /\ last.status # "Panic"
    /\ edits' = edits + 1
    /\ UNCHANGED exceptNotebook

\* write_cell(cell_index, code)
WriteCell(cell_index, code) ==
    /\ Callable
    /\ IF cell_index >= Len(cells)
       THEN InvalidIndex("write_cell", cell_index, code)
       ELSE Called("write_cell", cell_index, code, Range(cell_index, Len(cells)),
                   refresh_each(cell_index + 1,
                                RunCell(cell_index, code, InputEnvironment(cell_index, cells),
                                        Notebook(cells, stores, <<>>))))

\* insert_cell(cell_index): a cell with an environment of its own, not yet run
InsertCell(cell_index) ==
    /\ Callable
    /\ Len(cells) < MaxCells
    /\ IF cell_index > Len(cells)
       THEN InvalidIndex("insert_cell", cell_index, Program(<<>>))
       ELSE Called("insert_cell", cell_index, Program(<<>>), <<>>,
                   Notebook(SubSeq(cells, 1, cell_index)
                                \o <<[environment |->
                                          NotebookEnvironment(Len(stores) + 1,
                                                              without_prelude_env.variables),
                                      source_code |-> Program(<<>>),
                                      runtime |-> FALSE,
                                      output |-> [status |-> "Ok", formats |-> <<>>,
                                                  errors |-> <<>>]]>>
                                \o SubSeq(cells, cell_index + 1, Len(cells)),
                            Append(stores, Environment_new_store),
                            <<>>))

\* remove_cell(cell_index)
RemoveCell(cell_index) ==
    /\ Callable
    /\ IF cell_index >= Len(cells)
       THEN InvalidIndex("remove_cell", cell_index, Program(<<>>))
       ELSE Called("remove_cell", cell_index, Program(<<>>), <<>>,
                   refresh_each(cell_index,
                                Notebook(SubSeq(cells, 1, cell_index)
                                             \o SubSeq(cells, cell_index + 2, Len(cells)),
                                         stores, <<>>)))

\* clear_state()
ClearState ==
    /\ Callable
    /\ Called("clear_state", 0, Program(<<>>), <<>>, Notebook(<<>>, stores, <<>>))

NextNotebook ==
    \/ \E cell_index \in 0..MaxCells, code \in CellSources : WriteCell(cell_index, code)
    \/ \E cell_index \in 0..MaxCells : InsertCell(cell_index)
    \/ \E cell_index \in 0..MaxCells : RemoveCell(cell_index)
    \/ ClearState

SpecNotebook == Init /\ [][NextNotebook]_vars

\* C19: write_cell(i, code) runs the new code from the environment stored by
\* cell i-1 (the base environment when i = 0), stores the result and the
\* environment in cell i, re-runs the cells i+1..N-1 in order, each from the
\* environment its predecessor stored, and returns the indices i..N-1
C19_WriteCellRerunsDependents ==
    (last.op = "write_cell" /\ last.status = "Ok") =>
        /\ Len(last.returned) = Len(cells) - last.cell_index
        /\ \A k \in DOMAIN last.returned : last.returned[k] = last.cell_index + k - 1
        /\ cells[last.cell_index + 1].source_code = last.code
        /\ Len(runs) = Len(last.returned)
        /\ \A k \in DOMAIN runs :
              /\ runs[k].cell = last.returned[k]
              /\ runs[k].code = cells[runs[k].cell + 1].source_code
              /\ runs[k].from = IF runs[k].cell = 0 THEN EMPTY_ENV
                                ELSE cells[runs[k].cell].environment
              /\ k > 1 => runs[k].before = runs[k - 1].result.st
              /\ runs[k].result = run(runs[k].code, runs[k].from, runs[k].before)
              /\ cells[runs[k].cell + 1].output = runs[k].result.output
              /\ cells[runs[k].cell + 1].environment = runs[k].result.environment
              /\ cells[runs[k].cell + 1].runtime
        /\ stores[runs[1].from.store] = runs[Len(runs)].result.st

\* the middle cell of three was written after its predecessor had run, and the
\* last cell was re-run after it
C19_Witness ==
    /\ last.op = "write_cell"
    /\ last.status = "Ok"
    /\ last.cell_index = 1
    /\ Len(cells) = 3
    /\ cells[1].runtime
    /\ last.returned = <<1, 2>>
    /\ Len(runs) = 2

(***************************************************************************)
(* The unit and prefix stores: a session whose inputs declare and look up  *)
(* units and prefixes.                                                     *)
(***************************************************************************)
id_z == <<"z">>
id_mm == id_m \o id_m
id_kmm == id_k \o id_mm

StorePrograms ==
    { Program(<<BaseUnitDecl(id_meter, id_m)>>),
      Program(<<BaseUnitDecl(id_g, NoName)>>),
      \* derived units: a new one, one under a name in use, one from itself
      Program(<<DerivedUnitDecl(id_g, NoName, LiteralQuantity(<<"2">>, id_m)),
                Variable(id_g)>>),
      Program(<<DerivedUnitDecl(id_g, id_b, LiteralQuantity(<<"3">>, id_g)),
                Variable(id_b), Variable(id_g)>>),
      Program(<<DerivedUnitDecl(id_g, NoName, True)>>),
      Program(<<DerivedUnitDecl(id_km, NoName, LiteralQuantity(<<"7">>, id_m)),
                Variable(id_km)>>),
      \* a unit of scale zero
      Program(<<DerivedUnitDecl(id_z, NoName, LiteralQuantity(<<"0">>, id_m)),
                BinOp("Add", LiteralQuantity(<<"1">>, id_z), LiteralQuantity(<<"1">>, id_m))>>),
      Program(<<BinOp("Div", One, Zero)>>),
      Program(<<DerivedUnitDecl(id_z, NoName, LiteralQuantity(<<"0">>, id_m))>>),
      \* a derived unit whose name a later input may declare as a base unit
      Program(<<BaseUnitDecl(id_meter, id_m),
                DerivedUnitDecl(id_g, NoName, LiteralQuantity(<<"2">>, id_m))>>),
      \* prefixes
      Program(<<PrefixDecl(id_kilo, id_k, Num(<<"1", "0">>))>>),
      Program(<<PrefixDecl(id_b, id_k, Three)>>),
      Program(<<PrefixDecl(id_kilo, NoName, Seven)>>),
      Program(<<PrefixDecl(id_f, id_b, LiteralQuantity(<<"3">>, id_m))>>),
      Program(<<PrefixDecl(id_f, NoName, True)>>),
      \* a name with two splits: k + mm and km + m
      Program(<<BaseUnitDecl(id_meter, id_m), BaseUnitDecl(id_y, id_mm),
                PrefixDecl(id_kilo, id_k, Num(<<"1", "0">>)), PrefixDecl(id_x, id_km, Three),
                Variable(id_kmm)>>),
      \* lookups
      Program(<<LiteralQuantity(<<"1">>, id_km)>>),
      Program(<<Variable(id_kilometer)>>),
      Program(<<Variable(id_kmeter)>>) }

\* the quantities format_unit is given: of one and of two dimensions, of a
\* dimension without a named unit, with exact, zero and approximate scales
FormatQuantities ==
    { Quantity(Number_new(3), Unit(scale, powers)) :
        scale \in {Number_one, Number_new(4), Number_zero, Approx(1, 2)},
        powers \in { MapPut(EmptyMap, Meter, Ratio_new(1, 1)),
                     MapPut(EmptyMap, BaseUnit(id_g, NoName), Ratio_new(1, 1)),
                     MapPut(EmptyMap, Meter, Ratio_new(2, 1)) } }

\* the value of the last input, when it is a quantity (cli main: run)
OutQuantities ==
    IF out.status = "Ok" /\ out.value.tag = "Quantity" THEN {out.value.q} ELSE {}

\* the orders a HashSet may yield its elements in
Orders(S) ==
    {o \in [1..Cardinality(S) -> S] : \A i, k \in 1..Cardinality(S) : i # k => o[i] # o[k]}

\* format_unit(quantity, env)
FormatUnit(quantity, order) ==
    /\ out.status # "Panic"
    /\ formatted.result.status # "Panic"
    /\ formatted' = [called |-> TRUE, q |-> quantity, order |-> order, snap |-> Snap(st),
                     result |-> format_unit(quantity, st, order)]
    /\ UNCHANGED exceptFormat

NextStores ==
    \/ \E program \in StorePrograms : Eval(program)
    \/ \E quantity \in FormatQuantities \cup OutQuantities :
          \E order \in Orders(get_unit_names(st, quantity.unit.powers)) :
              FormatUnit(quantity, order)

SpecStores == Init /\ [][NextStores]_vars

(***************************************************************************)
(* Reading the history of a run.  An invocation is named by the index of   *)
(* its exit event; Trace[i].enter is the index of its enter event.         *)
(***************************************************************************)
Trace == st.trace

ExitEvents == {i \in DOMAIN Trace : Trace[i].ev = "exit"}

\* the invocation returned (a value or an error) instead of aborting
Returned(i) == Trace[i].status \in {"Ok", "Err"}

\* the returned invocations of the expressions of the given kinds
ExitsOf(kinds) == {i \in ExitEvents : Trace[i].expr.kind \in kinds /\ Returned(i)}

\* the invocations that ran during invocation i
Inside(i) == {k \in ExitEvents : Trace[i].enter < Trace[k].enter /\ k < i}

RECURSIVE Ascending(_)
Ascending(S) ==
    IF S = {} THEN <<>>
    ELSE LET lo == CHOOSE a \in S : \A c \in S : a <= c
         IN <<lo>> \o Ascending(S \ {lo})

\* the invocations made directly by invocation i, in the order they were made
Children(i) == Ascending({k \in Inside(i) : Trace[k].depth = Trace[i].depth + 1})

\* the scope nodes from id outwards, innermost first
RECURSIVE ChainSeq(_, _)
ChainSeq(scopes, id) ==
    IF id = 0 THEN <<>> ELSE <<id>> \o ChainSeq(scopes, scopes[id].outer)

Chain(scopes, id) == {ChainSeq(scopes, id)[a] : a \in DOMAIN ChainSeq(scopes, id)}

\* the names that the expressions of the given kinds, evaluated during i, write
WrittenBy(i, kinds) == {Trace[k].expr.name : k \in {c \in Inside(i) : Trace[c].expr.kind \in kinds}}

\* the result of invocation k is the result of invocation i
SameResult(i, k) ==
    /\ Trace[i].status = Trace[k].status
    /\ Trace[i].value = Trace[k].value
    /\ Trace[i].error = Trace[k].error

\* the entry stored in the prefix trie under key, read along the edges
RECURSIVE PrefixEntry(_, _)
PrefixEntry(node, key) ==
    IF key = <<>> THEN node.val
    ELSE IF key[1] \in DOMAIN node.edges THEN PrefixEntry(node.edges[key[1]], Tail(key))
    ELSE None

\* name is a stored unit name, or splits into a stored prefix and a stored unit name
\* that are both long names or both short names
ResolvableAsUnit(s, name) ==
    \/ name \in DOMAIN s.units
    \/ \E a \in 0..Len(name) :
          LET prefix == PrefixEntry(s.prefixes, SubSeq(name, 1, a))
              unit_name == SubSeq(name, a + 1, Len(name))
          IN /\ prefix.some
             /\ unit_name \in DOMAIN s.units
             /\ s.units[unit_name].is_long_name = prefix.v.is_long_name

\* a call that reached its body: the callee is a function of matching arity and every
\* argument evaluated to a value
CallsWithArguments ==
    {i \in ExitsOf({"Call"}) :
        LET c == Children(i)
            n == Len(Trace[i].expr.arguments)
        IN /\ Len(c) >= 1 + n
           /\ Trace[c[1]].status = "Ok"
           /\ Trace[c[1]].value.tag = "Function"
           /\ Len(Trace[c[1]].value.parameters) = n
           /\ \A a \in 2..(1 + n) : Trace[c[a]].status = "Ok"}

Callee(i) == Trace[Children(i)[1]].value

(***************************************************************************)
(* Calls.                                                                  *)
(***************************************************************************)
\* C1: after a call returned, with a value or an error, every scope of the caller's
\* chain holds the bindings it held when the call began, apart from the names that a
\* declaration or update evaluated during the call writes; the parameters in particular
\* are not bound in the caller's scopes
C1_CallLeavesCallerScopes ==
    \A i \in ExitsOf({"Call"}) :
        LET before == Trace[Trace[i].enter]
            after == Trace[i]
            written == WrittenBy(i, {"VarDeclaration", "VarUpdate", "FunctionDecl", "FunctionUpdate"})
        IN /\ after.env = before.env
           /\ \A c \in Chain(before.snap.scopes, before.env.variables) :
                 /\ after.snap.scopes[c].outer = before.snap.scopes[c].outer
                 /\ \A name \in (DOMAIN after.snap.scopes[c].table
                                   \cup DOMAIN before.snap.scopes[c].table) \ written :
                       /\ name \in DOMAIN before.snap.scopes[c].table
                       /\ name \in DOMAIN after.snap.scopes[c].table
                       /\ after.snap.scopes[c].table[name] = before.snap.scopes[c].table[name]

\* C2: a call with as many arguments as parameters evaluates the body with each
\* parameter bound, as seen from the body's environment, to the value of the
\* corresponding argument, and returns the body's result, from whatever scope it is made
C2_CallYieldsBodyOnArguments ==
    \A i \in CallsWithArguments :
        LET c == Children(i)
            n == Len(Trace[i].expr.arguments)
            function == Callee(i)
        IN (\A a \in 1..n : ~ResolvableAsUnit(Trace[c[n + 1]].snap, function.parameters[a]))
           => /\ Len(c) = n + 2
              /\ Trace[c[n + 2]].expr = function.body
              /\ SameResult(i, c[n + 2])
              /\ LET body == Trace[Trace[c[n + 2]].enter]
                 IN \A a \in 1..n :
                       (\A a2 \in (a + 1)..n : function.parameters[a2] # function.parameters[a])
                       => VariableScope_get_var(body.snap.scopes, body.env.variables,
                                                function.parameters[a])
                            = Some(Trace[c[a + 1]].value)

\* C3: a closure is a handle to the scope node that was current at its declaration:
\* the function value holds that very node, the node binds the function's own name to
\* it, and the body of every call runs in a new node whose outer is that node, so it
\* reads the node's bindings as they are at the call, whether or not the node is still
\* in the caller's chain
C3_ClosureSharesDeclaringScope ==
    /\ \A i \in {d \in ExitsOf({"FunctionDecl"}) : Trace[d].status = "Ok"} :
          LET before == Trace[Trace[i].enter]
              after == Trace[i]
          IN /\ after.value.env = before.env
             /\ Trace[i].expr.name \in DOMAIN after.snap.scopes[before.env.variables].table
             /\ after.snap.scopes[before.env.variables].table[Trace[i].expr.name] = after.value
             /\ Len(after.snap.scopes) = Len(before.snap.scopes)
    /\ \A i \in {c \in CallsWithArguments : Len(Children(c)) = Len(Trace[c].expr.arguments) + 2} :
          LET c == Children(i)
              n == Len(Trace[i].expr.arguments)
              body == Trace[Trace[c[n + 2]].enter]
              declared == Callee(i).env.variables
          IN /\ body.expr = Callee(i).body
             /\ body.env.variables > Len(Trace[c[1]].snap.scopes)
             /\ body.snap.scopes[body.env.variables].outer = declared
             /\ \A name \in DOMAIN body.snap.scopes[declared].table :
                   (\A a \in 1..n : Callee(i).parameters[a] # name)
                   => VariableScope_get_var(body.snap.scopes, body.env.variables, name)
                        = Some(body.snap.scopes[declared].table[name])

\* a function declared in a block is called after the block exited; its body reads a
\* variable of the block's scope that was updated after the declaration and calls the
\* function under its own name
C3_Witness ==
    \E i \in ExitsOf({"Call"}), k \in ExitsOf({"Call"}) :
        /\ k \in Inside(i)
        /\ Trace[i].status = "Ok"
        /\ Trace[k].status = "Ok"
        /\ Trace[Children(i)[1]].value.tag = "Function"
        /\ Trace[Children(k)[1]].value = Trace[Children(i)[1]].value
        /\ LET declared == Callee(i).env.variables
               caller == Trace[Trace[i].enter]
           IN /\ declared \notin Chain(caller.snap.scopes, caller.env.variables)
              /\ \E u \in ExitsOf({"VarUpdate"}), r \in ExitsOf({"Variable"}) :
                    /\ u \in Inside(i) /\ r \in Inside(k)
                    /\ Trace[u].status = "Ok" /\ Trace[r].status = "Ok"
                    /\ Trace[u].expr.name = Trace[r].expr.name
                    /\ Trace[r].expr.name \in DOMAIN Trace[r].snap.scopes[declared].table
                    /\ Trace[r].value = Trace[u].value

(***************************************************************************)
(* Blocks and statement sequences.                                         *)
(***************************************************************************)
\* C4: when the evaluation of a block returns, with a value or an error, the current
\* scope is the node it was before the block, and every scope of the chain the block
\* was entered in has the same outer link and binds the same names to the same values,
\* except for the values of names that an update evaluated during the block writes
C4_BlockScopeDiscarded ==
    \A i \in ExitsOf({"Block"}) :
        LET before == Trace[Trace[i].enter]
            after == Trace[i]
            updated == WrittenBy(i, {"VarUpdate", "FunctionUpdate"})
        IN /\ after.env = before.env
           /\ \A c \in Chain(before.snap.scopes, before.env.variables) :
                 /\ after.snap.scopes[c].outer = before.snap.scopes[c].outer
                 /\ DOMAIN after.snap.scopes[c].table = DOMAIN before.snap.scopes[c].table
                 /\ \A name \in DOMAIN before.snap.scopes[c].table \ updated :
                       after.snap.scopes[c].table[name] = before.snap.scopes[c].table[name]

\* a block that returned declared a name that an enclosing scope binds, and a block
\* that returned an error was left as well
C4_Witness ==
    /\ \E i \in ExitsOf({"Block"}), d \in ExitsOf({"VarDeclaration"}) :
          /\ d \in Inside(i)
          /\ Trace[d].status = "Ok"
          /\ Trace[d].env.variables > Trace[Trace[i].enter].env.variables
          /\ Trace[d].expr.name
                \in DOMAIN Trace[i].snap.scopes[Trace[Trace[i].enter].env.variables].table
          /\ Trace[d].value
                # Trace[i].snap.scopes[Trace[Trace[i].enter].env.variables].table[Trace[d].expr.name]
    /\ \E i \in ExitsOf({"Block"}) : Trace[i].status = "Err"

\* C5: a program or block that returns evaluated a leading part of its statements, one
\* after the other in source order; every statement but the last evaluated one returned
\* a value; the result is the result of the last evaluated statement, which is the last
\* statement unless it returned an error; without statements the result is Nothing
C5_StatementsInOrder ==
    \A i \in ExitsOf({"Program", "Block"}) :
        LET c == Children(i)
            expressions == Trace[i].expr.expressions
        IN /\ Len(c) <= Len(expressions)
           /\ \A a \in 1..Len(c) : Trace[Trace[c[a]].enter].expr = expressions[a]
           /\ \A a \in 1..(Len(c) - 1) :
                 /\ Trace[c[a]].status = "Ok"
                 /\ c[a] < Trace[c[a + 1]].enter
           /\ IF expressions = <<>>
              THEN Trace[i].status = "Ok" /\ Trace[i].value = Nothing
              ELSE /\ Len(c) >= 1
                   /\ SameResult(i, c[Len(c)])
                   /\ Trace[c[Len(c)]].status = "Ok" => Len(c) = Len(expressions)

\* a statement that is not the last one returned an error, and an empty block returned
C5_Witness ==
    /\ \E i \in ExitsOf({"Program", "Block"}) :
          /\ Trace[i].status = "Err"
          /\ Len(Children(i)) = 2
          /\ Len(Trace[i].expr.expressions) = 3
    /\ inputs = 2

\* C6: an update of a name that is not resolvable as a unit, once its right-hand side
\* has a value, writes that value in the innermost scope of the current chain that
\* binds the name and changes nothing else; when no scope of the chain binds the name
\* it fails with UpdateNonExistentVar and every scope is as before
C6_UpdateInnermostOrFail ==
    \A i \in ExitsOf({"VarUpdate"}) :
        LET rhs == Trace[Children(i)[1]]
            name == Trace[i].expr.name
            scopes == rhs.snap.scopes
            chain == ChainSeq(scopes, rhs.env.variables)
            holders == {a \in DOMAIN chain : name \in DOMAIN scopes[chain[a]].table}
        IN (rhs.status = "Ok" /\ ~ResolvableAsUnit(rhs.snap, name))
           => IF holders = {}
              THEN /\ Trace[i].status = "Err"
                   /\ Trace[i].error = UpdateNonExistentVar(name)
                   /\ Trace[i].snap = rhs.snap
              ELSE LET innermost == chain[CHOOSE a \in holders : \A a2 \in holders : a <= a2]
                   IN /\ Trace[i].status = "Ok"
                      /\ Trace[i].value = rhs.value
                      /\ Trace[i].snap.scopes
                            = [scopes EXCEPT ![innermost].table =
                                  [n \in DOMAIN @ |-> IF n = name THEN rhs.value ELSE @[n]]]

\* one update found its name in two scopes of the chain, another found it in none
C6_Witness ==
    /\ \E i \in ExitsOf({"VarUpdate"}) :
          LET rhs == Trace[Children(i)[1]]
          IN /\ Trace[i].status = "Ok"
             /\ Cardinality({c \in Chain(rhs.snap.scopes, rhs.env.variables) :
                               Trace[i].expr.name \in DOMAIN rhs.snap.scopes[c].table}) = 2
             /\ Trace[i].snap # rhs.snap
    /\ \E i \in ExitsOf({"VarUpdate"}) :
          /\ Trace[i].error = UpdateNonExistentVar(Trace[i].expr.name)
          /\ Trace[Children(i)[1]].snap.scopes[1].table # EmptyMap

(***************************************************************************)
(* Names of variables and names of units.                                  *)
(***************************************************************************)
\* the invocations that declare a variable or a function and got as far as the
\* declaration: a FunctionDecl, or a VarDeclaration whose right-hand side has a value
Declarations ==
    {i \in ExitsOf({"VarDeclaration", "FunctionDecl"}) :
        Trace[i].expr.kind = "VarDeclaration" => Trace[Children(i)[1]].status = "Ok"}

\* the environment and the stores at the moment of the declaration
AtDeclaration(i) ==
    IF Trace[i].expr.kind = "VarDeclaration" THEN Trace[Children(i)[1]] ELSE Trace[Trace[i].enter]

\* C7: the declaration of a variable or a function under a name that is a stored unit
\* name, or a stored prefix followed by a stored unit name of the same kind (both long
\* or both short), fails with OccupiedName(name) and leaves every scope as it was
C7_DeclareOccupiedName ==
    \A i \in Declarations :
        LET name == Trace[i].expr.name
        IN ResolvableAsUnit(AtDeclaration(i).snap, name)
           => /\ Trace[i].status = "Err"
              /\ Trace[i].error = OccupiedName(name)
              /\ Trace[i].snap = AtDeclaration(i).snap

\* a variable was declared under a prefixed unit name, which no store holds as a key
C7_Witness ==
    \E i \in Declarations :
        /\ Trace[i].expr.kind = "VarDeclaration"
        /\ Trace[i].expr.name \notin DOMAIN Trace[i].snap.units
        /\ ResolvableAsUnit(Trace[i].snap, Trace[i].expr.name)
        /\ Trace[i].error = OccupiedName(Trace[i].expr.name)

\* the programs that declare a base unit and then, in the same scope, a variable under
\* the unit's long name
UnitThenVariable ==
    {p \in Programs :
        /\ Len(p.expressions) = 2
        /\ p.expressions[1].kind = "BaseUnitDecl"
        /\ p.expressions[2].kind = "VarDeclaration"
        /\ p.expressions[2].rhs.kind = "Literal"
        /\ p.expressions[2].name = p.expressions[1].long_name}

\* C8: the pipeline (resolve, then eval) run on a program that declares a unit and then
\* a variable of the same name in the same scope reports OccupiedName of that name
C8_PipelineReportsOccupiedName ==
    (inputs >= 1 /\ input \in UnitThenVariable)
    => /\ out.status = "Err"
       /\ out.error = OccupiedName(input.expressions[2].name)

\* the names bound in the scopes of the session's chain
BoundNames == UNION {DOMAIN st.scopes[c].table : c \in Chain(st.scopes, env.variables)}

\* C9: no name is bound as a variable in a scope of the current chain and at the same
\* time resolvable as a unit; a unit declaration under a name that a scope of the chain
\* binds fails and leaves the unit store as it was
C9_NameExclusionSymmetric ==
    /\ \A name \in BoundNames : ~ResolvableAsUnit(st, name)
    /\ \A i \in ExitsOf({"BaseUnitDecl"}) :
          LET before == Trace[Trace[i].enter]
          IN (\E c \in Chain(before.snap.scopes, before.env.variables) :
                  \/ Trace[i].expr.long_name \in DOMAIN before.snap.scopes[c].table
                  \/ Trace[i].expr.short_name \in DOMAIN before.snap.scopes[c].table)
             => /\ Trace[i].status = "Err"
                /\ Trace[i].snap.units = before.snap.units

(***************************************************************************)
(* If.                                                                     *)
(***************************************************************************)
\* C10: an if that returns evaluated its condition first and once; on Bool(true) it
\* evaluated the then-branch and nothing else, on Bool(false) or Nothing the
\* else-branch and nothing else, and its result is that branch's result; on a Quantity
\* or a Function it evaluated no branch and failed with InvalidType; an error of the
\* condition is the result
C10_IfOneBranch ==
    \A i \in ExitsOf({"If"}) :
        LET c == Children(i)
            expr == Trace[i].expr
            cond == Trace[c[1]]
            Took(branch) ==
                /\ Len(c) = 2
                /\ Trace[Trace[c[2]].enter].expr = branch
                /\ Trace[Trace[c[2]].enter].snap = cond.snap
                /\ SameResult(i, c[2])
        IN /\ Len(c) >= 1
           /\ Trace[Trace[c[1]].enter].expr = expr.cond
           /\ CASE cond.status # "Ok" -> Len(c) = 1 /\ SameResult(i, c[1])
                [] cond.status = "Ok" /\ cond.value = Bool(TRUE) -> Took(expr.a)
                [] cond.status = "Ok" /\ cond.value \in {Bool(FALSE), Nothing} -> Took(expr.b)
                [] OTHER -> /\ Len(c) = 1
                            /\ Trace[i].status = "Err"
                            /\ Trace[i].error = InvalidType
                            /\ Trace[i].snap = cond.snap

\* an if whose condition is a variable that holds a Quantity failed with InvalidType
C10_Witness ==
    /\ \E i \in ExitsOf({"If"}) :
          /\ Trace[Children(i)[1]].status = "Ok"
          /\ Trace[Children(i)[1]].value.tag = "Quantity"
          /\ Trace[i].error = InvalidType
    /\ BoundNames # {}

(***************************************************************************)
(* The notebook's environments.                                            *)
(***************************************************************************)
\* what an environment shows: the variables of its scopes, innermost first,
\* its units and its prefixes
Visible(e, s) ==
    [variables |-> [k \in DOMAIN ChainSeq(s.scopes, e.variables) |->
                        s.scopes[ChainSeq(s.scopes, e.variables)[k]].table],
     units |-> s.units,
     prefixes |-> s.prefixes]

\* the cell n (from 1) run after the cells before it, each from the
\* environment its predecessor left, the first from a new base environment
RECURSIVE Replay(_, _)
Replay(n, cs) ==
    LET After(p) == run(cs[n].source_code, p.environment, p.st)
    IN IF n = 1 THEN run(cs[1].source_code, EMPTY_ENV, Environment_new_store)
       ELSE After(Replay(n - 1, cs))

\* running a cell leaves the environment it was cloned from as it was
C20_RunLeavesInputEnvironment ==
    \A k \in DOMAIN runs :
        Visible(runs[k].from, runs[k].result.st) = Visible(runs[k].from, runs[k].before)

\* the base environment is never changed
C20_BaseEnvironmentUnchanged ==
    Visible(EMPTY_ENV, stores[EMPTY_ENV.store]) = Visible(EMPTY_ENV, Environment_new_store)

\* once every cell has run, the output of each cell is that of its source run
\* after the sources of the cells above it
C20_OutputFromSourcesAbove ==
    (\A i \in DOMAIN cells : cells[i].runtime) =>
        \A i \in DOMAIN cells : cells[i].output = Replay(i, cells).output

\* C20: a cloned Environment is independent of the original: running a cell
\* changes neither the environment stored by the cell before it nor the base
\* environment, and the output of a cell depends only on the sources of the
\* cells up to it
C20_ClonesIndependent ==
    /\ C20_RunLeavesInputEnvironment
    /\ C20_BaseEnvironmentUnchanged
    /\ C20_OutputFromSourcesAbove

(***************************************************************************)
(* Unit and prefix declarations.                                           *)
(***************************************************************************)
\* the derived-unit declarations whose right-hand side evaluated to a value
Derivations ==
    {i \in ExitsOf({"DerivedUnitDecl"}) :
        Children(i) # <<>> /\ Trace[Children(i)[1]].status = "Ok"}

\* the value of the right-hand side of the declaration i
Derivation(i) == Trace[Children(i)[1]].value

\* the unit (n*s, P) of the quantity (n, Unit(s, P))
UnitOf(q) == Unit(Number_mul(q.number, q.unit.scale), q.unit.powers)

\* the names the declaration i declares
DeclaredNames(i) ==
    IF Trace[i].expr.short_name = NoName THEN {Trace[i].expr.long_name}
    ELSE {Trace[i].expr.long_name, Trace[i].expr.short_name}

\* the last unit declaration of the input that declared name, 0 if there is none
LastDeclaration(name) ==
    LET D == {i \in ExitsOf({"DerivedUnitDecl", "BaseUnitDecl"}) :
                 Trace[i].status = "Ok" /\ name \in DeclaredNames(i)}
    IN IF D = {} THEN 0 ELSE CHOOSE i \in D : \A k \in D : k <= i

\* C21: a derived-unit declaration whose right-hand side is the quantity
\* (n, Unit(s, P)) stores the unit (n*s, P) under the long and the short name,
\* replacing a unit already stored there, so that a later lookup of the name
\* yields the newest definition; a right-hand side that is not a quantity fails
\* with InvalidType and leaves the stores as the right-hand side left them
C21_DerivedUnitStored ==
    /\ \A i \in Derivations :
          IF Derivation(i).tag = "Quantity"
          THEN /\ Trace[i].status = "Ok"
               /\ Trace[i].snap.units[Trace[i].expr.long_name]
                     = Entry(TRUE, UnitOf(Derivation(i).q))
               /\ Trace[i].expr.short_name # NoName =>
                     Trace[i].snap.units[Trace[i].expr.short_name]
                        = Entry(FALSE, UnitOf(Derivation(i).q))
               /\ \A name \in DeclaredNames(i) :
                     get_unit(Trace[i].snap, name)
                        = [ok |-> TRUE, unit |-> UnitOf(Derivation(i).q)]
               /\ \A name \in DOMAIN Trace[Children(i)[1]].snap.units \ DeclaredNames(i) :
                     /\ name \in DOMAIN Trace[i].snap.units
                     /\ Trace[i].snap.units[name] = Trace[Children(i)[1]].snap.units[name]
          ELSE /\ Trace[i].status = "Err"
               /\ Trace[i].error = InvalidType
               /\ Trace[i].snap = Trace[Children(i)[1]].snap
    /\ \A i \in Derivations :
          (Trace[i].status = "Ok" /\ out.status # "Panic") =>
              \A name \in DeclaredNames(i) :
                  LastDeclaration(name) = i =>
                      get_unit(st, name) = [ok |-> TRUE, unit |-> UnitOf(Derivation(i).q)]

\* a unit was declared under a name that named another unit, and a lookup
\* after the declaration returned
C21_Witness ==
    \E i \in Derivations :
        /\ Trace[i].status = "Ok"
        /\ Trace[i].expr.long_name \in DOMAIN Trace[Trace[i].enter].snap.units
        /\ Trace[Trace[i].enter].snap.units[Trace[i].expr.long_name].value
              # UnitOf(Derivation(i).q)
        /\ \E k \in ExitsOf({"Variable"}) :
              /\ k > i
              /\ Trace[k].expr.name = Trace[i].expr.long_name
              /\ Trace[k].value = QuantityValue(Quantity(Number_one, UnitOf(Derivation(i).q)))

(***************************************************************************)
(* format_unit.                                                            *)
(***************************************************************************)
\* the numeric value of a finite number as a fraction
Numerator(a) == a.n

Denominator(a) == IF a.n = 0 THEN 1 ELSE a.d

NumEq(a, b) == Numerator(a) * Denominator(b) = Numerator(b) * Denominator(a)

NumLe(a, b) == Numerator(a) * Denominator(b) <= Numerator(b) * Denominator(a)

\* the named units of the signature of the quantity format_unit was given
Candidates ==
    {c \in get_unit_names(formatted.snap, formatted.q.unit.powers) :
        get_unit(formatted.snap, c[1]).ok}

CandidateScale(c) == get_unit(formatted.snap, c[1]).unit.scale

\* |candidate.scale - s|
Distance(c) == Number_abs(Number_sub(CandidateScale(c), formatted.q.unit.scale))

\* what the claim says of a call that returned
PhysicalValueKept ==
    /\ formatted.result.quantity.unit.powers = formatted.q.unit.powers
    /\ NumEq(Number_mul(formatted.result.quantity.number,
                        formatted.result.quantity.unit.scale),
             Number_mul(formatted.q.number, formatted.q.unit.scale))

ClosestChosen ==
    IF Candidates # {}
    THEN /\ formatted.result.matched
         /\ formatted.result.name \in Candidates
         /\ formatted.result.quantity.unit.scale = CandidateScale(formatted.result.name)
         /\ \A c \in Candidates : NumLe(Distance(formatted.result.name), Distance(c))
    ELSE /\ ~formatted.result.matched
         /\ NumEq(formatted.result.quantity.number,
                  Number_mul(formatted.q.number, formatted.q.unit.scale))
         /\ NumEq(formatted.result.quantity.unit.scale, Number_one)

\* C22: format_unit returns a quantity of the same signature and the same
\* physical value, in the named unit of that signature whose scale is closest
\* to the quantity's scale, exact and approximate scales compared by value, or
\* in base units (n*s, Unit(1, P)) when no unit of that signature is named
C22_FormatKeepsValuePicksClosest ==
    formatted.called =>
        /\ formatted.result.status = "Ok"
        /\ PhysicalValueKept
        /\ ClosestChosen

\* the same for the calls in which no scale is zero: neither the scale of the
\* quantity nor the scale of a candidate
C22_HoldsWithoutZeroScales ==
    (/\ formatted.called
     /\ formatted.q.unit.scale.n # 0
     /\ \A c \in Candidates : CandidateScale(c).n # 0) =>
        /\ formatted.result.status = "Ok"
        /\ PhysicalValueKept
        /\ ClosestChosen

\* format_unit aborts on a quantity of scale zero whose signature has no
\* named unit
C22_AbortsInBaseUnits ==
    (/\ formatted.called
     /\ formatted.q.unit.scale = Number_zero
     /\ Candidates = {}) => formatted.result.status = "Panic"

(***************************************************************************)
(* Failures.                                                               *)
(***************************************************************************)
\* parse accepts the input and returns it as it is: the tree holds no variable
\* reference for the resolver to annotate
ParsedUnchanged == resolve(input) = ROk(input, <<{}>>)

\* C23: eval returns Ok(value) or Err(error) for every program that parse
\* accepts, in every reachable environment, and never aborts the process, also
\* when a quantity is divided by an exact zero or a unit of scale zero is used
\* in a sum
C23_EvalReturns ==
    (inputs > 0 /\ ParsedUnchanged) => out.status \in {"Ok", "Err"}

\* a division by an exact zero aborts
C23_DivisionByZeroAborts ==
    (inputs > 0 /\ input = Program(<<BinOp("Div", One, Zero)>>)) => out.status = "Panic"

(***************************************************************************)
(* The annotations of the resolver.                                        *)
(***************************************************************************)
\* the markers of the resolved references of a tree, in source order
RECURSIVE Markers(_)
RECURSIVE MarkersOf(_, _)
MarkersOf(expressions, i) ==
    IF i > Len(expressions) THEN <<>>
    ELSE Markers(expressions[i]) \o MarkersOf(expressions, i + 1)

Markers(expr) ==
    CASE expr.kind = "ResolvedVariable" -> <<expr.scope>>
      [] expr.kind = "Variable" -> <<"unresolved">>
      [] expr.kind \in {"Error", "Literal", "BaseUnitDecl"} -> <<>>
      [] expr.kind \in {"VarDeclaration", "VarUpdate", "PrefixDecl", "DerivedUnitDecl"} ->
            Markers(expr.rhs)
      [] expr.kind = "Call" -> Markers(expr.callable) \o MarkersOf(expr.arguments, 1)
      [] expr.kind = "If" -> Markers(expr.cond) \o Markers(expr.a) \o Markers(expr.b)
      [] expr.kind \in {"Block", "Program"} -> MarkersOf(expr.expressions, 1)
      [] expr.kind = "BinOp" -> Markers(expr.a) \o Markers(expr.b)
      [] expr.kind = "UnaryOp" -> Markers(expr.operand)
      [] expr.kind \in {"FunctionDecl", "FunctionUpdate"} -> Markers(expr.body)

\* the marker of a reference to name under the open scopes, the root first:
\* the distance from the innermost scope to the nearest scope above the root
\* that has declared the name, Global when there is none
MarkerFor(name, open) ==
    LET holding == {d \in 2..Len(open) : name \in open[d]}
    IN IF holding = {} THEN Global
       ELSE Local(Len(open) - (CHOOSE d \in holding : \A h \in holding : h <= d))

\* the markers of the references among the events, in source order
RECURSIVE ExpectedMarkers(_, _, _)
ExpectedMarkers(events, i, open) ==
    IF i > Len(events) THEN <<>>
    ELSE CASE events[i][1] = "open" -> ExpectedMarkers(events, i + 1, Append(open, {}))
           [] events[i][1] = "close" ->
                 ExpectedMarkers(events, i + 1, SubSeq(open, 1, Len(open) - 1))
           [] events[i][1] \in {"name", "var"} ->
                 ExpectedMarkers(events, i + 1,
                                 [open EXCEPT ![Len(open)] = @ \cup {events[i][2]}])
           [] events[i][1] = "ref" ->
                 <<MarkerFor(events[i][2], open)>> \o ExpectedMarkers(events, i + 1, open)

\* C24: every variable reference is annotated Local(d) when a scope above the
\* root has declared the name at that point of the walk, d counting the scopes
\* from the innermost one to the nearest such scope, and Global otherwise; an
\* accepted tree leaves the scope stack with the root scope alone
C24_ReferencesAnnotated ==
    (passes # <<>> /\ passes[1].status = "Ok") =>
        /\ Markers(passes[1].expr) = ExpectedMarkers(Events(tree), 1, <<{}>>)
        /\ Len(passes[1].variables) = 1

\* an accepted tree with a reference to the innermost scope, one to a scope
\* further out and one to the root scope
C24_Witness ==
    /\ passes # <<>>
    /\ passes[1].status = "Ok"
    /\ \E a, b, c \in DOMAIN Markers(passes[1].expr) :
          /\ Markers(passes[1].expr)[a] = Local(0)
          /\ Markers(passes[1].expr)[b].scope = "Local"
          /\ Markers(passes[1].expr)[b].depth >= 1
          /\ Markers(passes[1].expr)[c] = Global

\* the variable-update and function-update nodes of a tree
RECURSIVE UpdateNodes(_)
UpdateNodes(expr) ==
    CASE expr.kind \in {"Error", "Literal", "Variable", "ResolvedVariable", "BaseUnitDecl"} -> {}
      [] expr.kind = "VarUpdate" -> {expr} \cup UpdateNodes(expr.rhs)
      [] expr.kind = "FunctionUpdate" -> {expr} \cup UpdateNodes(expr.body)
      [] expr.kind \in {"VarDeclaration", "PrefixDecl", "DerivedUnitDecl"} ->
            UpdateNodes(expr.rhs)
      [] expr.kind = "Call" ->
            UpdateNodes(expr.callable)
                \cup UNION {UpdateNodes(expr.arguments[i]) : i \in DOMAIN expr.arguments}
      [] expr.kind = "If" ->
            UpdateNodes(expr.cond) \cup UpdateNodes(expr.a) \cup UpdateNodes(expr.b)
      [] expr.kind \in {"Block", "Program"} ->
            UNION {UpdateNodes(expr.expressions[i]) : i \in DOMAIN expr.expressions}
      [] expr.kind = "BinOp" -> UpdateNodes(expr.a) \cup UpdateNodes(expr.b)
      [] expr.kind = "UnaryOp" -> UpdateNodes(expr.operand)
      [] expr.kind = "FunctionDecl" -> UpdateNodes(expr.body)

\* the node carries a scope marker, as a resolved reference does
Marked(node) ==
    IF "scope" \in DOMAIN node THEN node.scope = Global \/ node.scope.scope = "Local"
    ELSE FALSE

\* C25: after a successful resolve every variable-update node and every
\* function-update node of the tree carries a scope marker, Local(depth) or
\* Global, naming the scope of the variable it updates
C25_UpdatesAnnotated ==
    (passes # <<>> /\ passes[1].status = "Ok") =>
        \A node \in UpdateNodes(passes[1].expr) : Marked(node)

\* resolve returns the update nodes with the fields the parser gave them
C25_UpdatesLeftUnmarked ==
    (passes # <<>> /\ passes[1].status = "Ok") =>
        /\ \A node \in UpdateNodes(passes[1].expr) : ~Marked(node)
        /\ {[kind |-> node.kind, name |-> node.name] : node \in UpdateNodes(passes[1].expr)}
              = {[kind |-> node.kind, name |-> node.name] : node \in UpdateNodes(tree)}

(***************************************************************************)
(* Unit lookup.                                                            *)
(***************************************************************************)
id_kilom == id_kilo \o id_m

\* the names looked up
LookupNames ==
    {id_m, id_mm, id_meter, id_g, id_b, id_k, id_kilo, id_km, id_kmm, id_kmeter,
     id_kilom, id_kilometer, id_z, id_x, id_y}

\* the lengths a of the prefixes p of the splits name = p + u in which p is a
\* stored prefix, u a stored unit name, and both are long or both are short
Splits(s, name) ==
    {a \in 0..Len(name) :
        /\ PrefixEntry(s.prefixes, SubSeq(name, 1, a)).some
        /\ SubSeq(name, a + 1, Len(name)) \in DOMAIN s.units
        /\ s.units[SubSeq(name, a + 1, Len(name))].is_long_name
              = PrefixEntry(s.prefixes, SubSeq(name, 1, a)).v.is_long_name}

\* the unit of the split at a: the unit of u with its scale multiplied by p
SplitUnit(s, name, a) ==
    rescaled(s.units[SubSeq(name, a + 1, Len(name))].value,
             PrefixEntry(s.prefixes, SubSeq(name, 1, a)).v.value)

\* the literals with a unit name and the variable references of the input
Lookups == {i \in ExitsOf({"Literal", "Variable"}) :
               IF Trace[i].expr.kind = "Variable" THEN TRUE
               ELSE Trace[i].expr.literal.t = "Quantity" /\ Trace[i].expr.literal.name # NoName}

LookedUp(i) ==
    IF Trace[i].expr.kind = "Variable" THEN Trace[i].expr.name
    ELSE Trace[i].expr.literal.name

\* C26: get_unit(N) returns the unit stored under N when there is one;
\* otherwise it succeeds exactly when N splits into a stored prefix and a stored
\* unit name that are both long or both short, with that unit rescaled by the
\* prefix; otherwise the lookup fails with UnknownName(N)
C26_UnitLookup ==
    /\ out.status # "Panic" =>
          \A name \in LookupNames :
              IF name \in DOMAIN st.units
              THEN get_unit(st, name) = [ok |-> TRUE, unit |-> st.units[name].value]
              ELSE /\ get_unit(st, name).ok <=> Splits(st, name) # {}
                   /\ get_unit(st, name).ok =>
                         \E a \in Splits(st, name) :
                             get_unit(st, name).unit = SplitUnit(st, name, a)
    /\ \A i \in Lookups :
          (/\ LookedUp(i) \notin DOMAIN Trace[i].snap.units
           /\ Splits(Trace[i].snap, LookedUp(i)) = {}
           /\ Trace[i].expr.kind = "Literal") =>
              /\ Trace[i].status = "Err"
              /\ Trace[i].error = UnknownName(LookedUp(i))

\* a short prefix was combined with a short unit name and refused with the
\* long name of the same unit, and a long prefix likewise
C26_Witness ==
    /\ out.status # "Panic"
    /\ id_km \notin DOMAIN st.units
    /\ get_unit(st, id_km).ok
    /\ get_unit(st, id_kilometer).ok
    /\ ~get_unit(st, id_kmeter).ok
    /\ ~get_unit(st, id_kilom).ok
    /\ \E i \in Lookups : Trace[i].status = "Ok" /\ LookedUp(i) \notin DOMAIN Trace[i].snap.units

\* C27: a name with several valid splits into a stored prefix and a stored
\* unit name of the same kind is looked up through the split with the longest
\* prefix
C27_LongestPrefixSplit ==
    out.status # "Panic" =>
        \A name \in LookupNames :
            (name \notin DOMAIN st.units /\ Cardinality(Splits(st, name)) >= 2) =>
                get_unit(st, name)
                    = [ok |-> TRUE,
                       unit |-> SplitUnit(st, name,
                                          CHOOSE a \in Splits(st, name) :
                                              \A b \in Splits(st, name) : b <= a)]

\* the lookup goes through the split with the shortest prefix
C27_ShortestPrefixSplit ==
    out.status # "Panic" =>
        \A name \in LookupNames :
            (name \notin DOMAIN st.units /\ Splits(st, name) # {}) =>
                get_unit(st, name)
                    = [ok |-> TRUE,
                       unit |-> SplitUnit(st, name,
                                          CHOOSE a \in Splits(st, name) :
                                              \A b \in Splits(st, name) : a <= b)]

(***************************************************************************)
(* Prefix declarations.                                                    *)
(***************************************************************************)
\* the prefix declarations whose right-hand side evaluated to a value
PrefixDeclarations ==
    {i \in ExitsOf({"PrefixDecl"}) :
        Children(i) # <<>> /\ Trace[Children(i)[1]].status = "Ok"}

\* the prefix declarations whose right-hand side is a quantity with a dimension
DimensionalPrefixes ==
    {i \in PrefixDeclarations :
        /\ Derivation(i).tag = "Quantity"
        /\ Derivation(i).q.unit.powers # EmptyMap}

\* C28: a prefix declaration whose right-hand side evaluates to a quantity with
\* a dimension is rejected with an error and installs nothing in the prefix
\* store
C28_DimensionalPrefixRejected ==
    \A i \in DimensionalPrefixes :
        /\ Trace[i].status = "Err"
        /\ Trace[i].snap.prefixes = Trace[Children(i)[1]].snap.prefixes

\* a dimensional right-hand side is accepted like a number: the declaration
\* succeeds whenever the names are free and installs the quantity's number
C28_DimensionIgnored ==
    \A i \in DimensionalPrefixes :
        (/\ ~StringTrie_contains_key(Trace[Children(i)[1]].snap.prefixes,
                                     Trace[i].expr.long_name)
         /\ Trace[i].expr.short_name # NoName
         /\ ~StringTrie_contains_key(Trace[Children(i)[1]].snap.prefixes,
                                     Trace[i].expr.short_name)) =>
            /\ Trace[i].status = "Ok"
            /\ PrefixEntry(Trace[i].snap.prefixes, Trace[i].expr.long_name)
                  = Some(Entry(TRUE, Derivation(i).q.number))

(***************************************************************************)
(* The index of unit names by dimensional signature.                       *)
(***************************************************************************)
\* every (signature, long name) entry of the index names a stored unit of
\* that signature
IndexAgrees(s) ==
    \A base_units \in DOMAIN s.unit_names :
        \A names \in s.unit_names[base_units] :
            /\ names[1] \in DOMAIN s.units
            /\ s.units[names[1]].value.powers = base_units

\* the name format_unit returned denotes a unit of the quantity's signature
FormattedNameAgrees ==
    (formatted.called /\ formatted.result.matched) =>
        /\ get_unit(formatted.snap, formatted.result.name[1]).ok
        /\ get_unit(formatted.snap, formatted.result.name[1]).unit.powers
              = formatted.q.unit.powers

\* C29: in every reachable state each (signature, long name) entry of the
\* signature index names a unit that is stored with exactly that signature,
\* also after a redeclaration with another signature, and so the name that
\* format_unit returns for a quantity denotes a unit of the quantity's signature
C29_IndexAgreesWithUnits ==
    out.status # "Panic" => (IndexAgrees(st) /\ FormattedNameAgrees)

\* what holds instead: the index only grows, and every entry names a stored
\* unit, of whatever signature
C29_IndexNamesStoredUnits ==
    out.status # "Panic" =>
        \A base_units \in DOMAIN st.unit_names :
            \A names \in st.unit_names[base_units] : names[1] \in DOMAIN st.units

(***************************************************************************)
(* Stored prefixes are kept.                                               *)
(***************************************************************************)
\* the prefix declarations whose right-hand side is a quantity
NumericPrefixes == {i \in PrefixDeclarations : Derivation(i).tag = "Quantity"}

\* the prefix store when the declaration i starts to install its names
PrefixesBefore(i) == Trace[Children(i)[1]].snap.prefixes

\* the names of the declaration i that the prefix store already holds
OccupiedNames(i) == DeclaredNames(i) \cap Node_keys(PrefixesBefore(i))

\* a declaration of a stored name fails with OccupiedName
OccupiedRejected ==
    \A i \in NumericPrefixes :
        OccupiedNames(i) # {} =>
            /\ Trace[i].status = "Err"
            /\ \E name \in OccupiedNames(i) : Trace[i].error = OccupiedName(name)

\* the entry of a stored prefix never changes
StoredPrefixesKept ==
    \A i \in NumericPrefixes :
        \A key \in Node_keys(PrefixesBefore(i)) :
            PrefixEntry(Trace[i].snap.prefixes, key) = PrefixEntry(PrefixesBefore(i), key)

\* a declaration that fails with OccupiedName leaves the prefix store as it was
FailedPrefixInstallsNothing ==
    \A i \in NumericPrefixes :
        (Trace[i].status = "Err" /\ Trace[i].error.e = "OccupiedName") =>
            Node_keys(Trace[i].snap.prefixes) = Node_keys(PrefixesBefore(i))

\* C30: declaring a prefix whose long or short name is already stored fails
\* with OccupiedName, the value of a stored prefix never changes, and after a
\* declaration `prefix L S = e` that fails with OccupiedName the prefix store
\* holds exactly the entries it held before: L is not installed when only S
\* was occupied
C30_PrefixesWriteOnce ==
    OccupiedRejected /\ StoredPrefixesKept /\ FailedPrefixInstallsNothing

\* the part that holds: occupied names are rejected and stored entries are kept
C30_OccupiedRejectedEntriesKept == OccupiedRejected /\ StoredPrefixesKept

\* when only the short name is occupied the long name is installed nonetheless
C30_LongNameInstalledBeforeFailure ==
    \A i \in NumericPrefixes :
        (/\ Trace[i].expr.long_name \notin Node_keys(PrefixesBefore(i))
         /\ Trace[i].expr.short_name \in Node_keys(PrefixesBefore(i))) =>
            /\ Trace[i].error = OccupiedName(Trace[i].expr.short_name)
            /\ PrefixEntry(Trace[i].snap.prefixes, Trace[i].expr.long_name)
                  = Some(Entry(TRUE, Derivation(i).q.number))

====
